---- MODULE Spec2Model ----
(***************************************************************************)
(* Verification model of the hysoc streaming trajectory pipeline:          *)
(*   - STEPSegmenter      (src/src/hysoc/modules/segmentation/step.py)     *)
(*   - SquishCompressor   (src/src/hysoc/modules/move_compression/squish.py)*)
(*   - OnlineMapMatcher   (src/src/hysoc/modules/map_matching/matcher.py)  *)
(*                                                                         *)
(* Geometry is planar: a fix carries integer metric offsets (lat, lon) on  *)
(* a local tangent plane at the equator, where the flat-earth distance of  *)
(* step.py reduces to the Euclidean distance (cos(lat) = 1).  Distances    *)
(* are compared through their squares, so no square root is needed.        *)
(* Every fix carries n, its ordinal in the input: the identity of the      *)
(* Python object.                                                          *)
(***************************************************************************)
EXTENDS Integers, Sequences, FiniteSets, TLC

VARIABLES
    focus,             \* which component this run exercises
    cfg,               \* STEPSegmenter configuration (max_eps, min_duration_seconds, g, threshold_sq)
    origin,            \* STEPSegmenter.origin_lat / origin_lon
    cache,             \* STEPSegmenter.cache: <<[p, gx, gy], ...>>
    cache_offset,      \* STEPSegmenter.cache_offset
    current_sp_start,  \* STEPSegmenter.current_sp_start (None when absent)
    current_sp_end,    \* STEPSegmenter.current_sp_end   (None when absent)
    op,                \* the last call made on the segmenter, with the case it took
    ret,               \* the list that call returned
    input,             \* history: every fix passed to process_point, in order
    emitted,           \* history: every segment returned so far, in order
    calls,             \* history: number of calls made so far
    sp_merges,         \* history: Case 1.2 extensions of the stay-point in progress
    assigned,          \* history: the absolute index c each ingested fix was given
    fresh,             \* history: an instance constructed anew at the last flush and fed the same fixes since
    s1_hops,           \* scenario S1: fixes of the moving phase (0: no scenario is played)
    mm_window,         \* OnlineMapMatcher.window_size
    mm_buffer,         \* OnlineMapMatcher.buffer
    mm_op,             \* the last call made on the matcher
    mm_ret,            \* what that call returned (<<>> for None, <<p>> for a Point, or the flushed list)
    mm_in,             \* history: every fix passed to OnlineMapMatcher.process_point
    mm_out,            \* history: every fix returned by the matcher, in order
    mm_calls,          \* history: number of calls made on the matcher
    mm_outcomes,       \* history: what matching produced for each fix the last call returned
    mm_peak,           \* history: the longest the buffer has been during the last call
    sq_capacity,       \* SquishCompressor.capacity (None while no instance exists)
    sq_asked,          \* history: the capacity argument handed to the constructor
    sq_override,       \* compress: the capacity argument (<<>> for None)
    sq_points,         \* compress: the points argument
    sq_pc,             \* "new", "ValueError" (constructor), "idle", "loop", "returned", "IndexError"
    sq_i,              \* compress: index of the next fix of the for loop
    sq_nodes,          \* compress: nodes
    sq_pq,             \* compress: pq, the heap
    sq_buffer,         \* compress: current_buffer_nodes, as node indices
    sq_victims,        \* history: indices of the nodes evicted, in order
    sq_stale,          \* history: the heap entries popped and discarded, in order
    sq_pushed,         \* history: the heap entries pushed, in order
    sq_result,         \* what compress returned
    stc_points,        \* STCOracle.process: the points of the segment
    stc_pc,            \* "idle" or "returned"
    stc_result,        \* what STCOracle.process returned
    sc_points,         \* StopCompressor.compress: the points argument
    sc_pc,             \* "idle", "returned" or "ValueError"
    sc_result,         \* the CompressedStop returned, as a one-element list
    sed_original,      \* calculate_sed_stats: the original argument
    sed_compressed,    \* calculate_sed_stats: the compressed argument
    sed_pc,            \* "idle" or "returned"
    sed_stats          \* the dictionary calculate_sed_stats returned

stepVars == <<cfg, origin, cache, cache_offset, current_sp_start, current_sp_end,
              op, ret, input, emitted, calls, sp_merges, assigned, fresh>>

mmVars == <<mm_window, mm_buffer, mm_op, mm_ret, mm_in, mm_out, mm_calls, mm_outcomes, mm_peak>>

sqVars == <<sq_capacity, sq_asked, sq_override, sq_points, sq_pc, sq_i, sq_nodes, sq_pq, sq_buffer,
           sq_victims, sq_stale, sq_pushed, sq_result>>

stcVars == <<stc_points, stc_pc, stc_result>>

scVars == <<sc_points, sc_pc, sc_result>>

sedVars == <<sed_original, sed_compressed, sed_pc, sed_stats>>

\* the components that are called once with a list: STCOracle, StopCompressor
\* and the SED metric
offlineVars == <<stcVars, scVars, sedVars>>

vars == <<focus, stepVars, s1_hops, mmVars, sqVars, offlineVars>>

----------------------------------------------------------------------------
(* Bounds of the exploration *)

MaxCalls == 5       \* calls (process_point or flush) made on one segmenter
MaxReuseCalls == 7  \* calls made on a segmenter that is used again after flush
MaxLon   == 3       \* fixes lie at lon = CoordStep * (0..MaxLon)
MaxLat   == 0       \* fixes lie at lat = CoordStep * (0..MaxLat)
MaxTime  == 1       \* Spec: timestamps are TimeStep * (0..MaxTime), in any order
MaxGap   == 1       \* SpecMono: a fix comes TimeStep * (0..MaxGap) after its predecessor
MaxWindow == 3      \* window_size of the matcher is in 1..MaxWindow
MaxMatcherCalls == 5  \* calls (process_point or flush) made on one matcher
MaxPoints == 6      \* compress is given 0..MaxPoints fixes
MaxCapacity == 4    \* capacities go up to MaxCapacity (overrides start at -1)
MaxSquishLat == 1   \* compress: latitudes are 0..MaxSquishLat, on the meridian lon = 0
MaxFloatPoints == 5 \* compress is given 0..MaxFloatPoints fixes that may hold nan
MaxSquishGap == 1   \* compress: a fix comes 0..MaxSquishGap after its predecessor
MaxStcPoints == 5   \* STCOracle.process is given 0..MaxStcPoints fixes
MaxRoad == 3        \* road ids of those fixes are None or 1..MaxRoad
MaxStopPoints == 3  \* StopCompressor.compress is given 0..MaxStopPoints fixes
MaxStopLat == 2     \* those fixes lie at lat in 0..MaxStopLat, on the line lon = 2 * lat + 1
MaxStopTime == 1    \* and carry timestamps in 0..MaxStopTime, in any order
MaxPlanarCalls == 4 \* fixes fed to a segmenter on the plane
MaxPlanarX == 5     \* which lie at x = PlanarStep * (0..MaxPlanarX)
MaxPlanarY == 2     \* and y = PlanarStep * (0..MaxPlanarY)
PlanarStep == 4     \* spacing of the positions on the plane, in metres
MaxSedLon == 1      \* calculate_sed_error: longitudes are 0..MaxSedLon degrees
MaxSedTime == 2     \* calculate_sed_error: timestamps are 0..MaxSedTime
MaxSedPoints == 3   \* fixes handed to calculate_sed_stats
MaxSedLat == 2      \* they lie at lat 0..MaxSedLat on the meridian
MaxSedGap == 1      \* and follow each other by 0..MaxSedGap seconds
CoordStep == 7      \* spacing of the positions, in metres
TimeStep == 10      \* spacing of the timestamps, in seconds

----------------------------------------------------------------------------
(* Python helpers *)

None == 0 - 1

Max(a, b) == IF a >= b THEN a ELSE b
Min(a, b) == IF a <= b THEN a ELSE b
Abs(a) == IF a >= 0 THEN a ELSE 0 - a

\* seq[lo:hi] of Python, for integer lo, hi (negative indices count from the end)
PySlice(s, lo, hi) ==
    LET len == Len(s)
        nlo == IF lo < 0 THEN Max(0, lo + len) ELSE Min(lo, len)
        nhi == IF hi < 0 THEN Max(0, hi + len) ELSE Min(hi, len)
    IN  IF nlo >= nhi THEN <<>> ELSE SubSeq(s, nlo + 1, nhi)

RECURSIVE SumOver(_, _)
SumOver(s, field) ==
    IF s = <<>> THEN 0 ELSE Head(s)[field] + SumOver(Tail(s), field)

----------------------------------------------------------------------------
(* core/point.py, core/segment.py *)

DefaultObj == "obj1"

Point(n, lat, lon, t, road_id) ==
    [n |-> n, lat |-> lat, lon |-> lon, timestamp |-> t, obj_id |-> DefaultObj,
     road_id |-> road_id]

Move(points) == [kind |-> "Move", points |-> points]

\* The centroid is the exact mean: lat = lat_num / den, lon = lon_num / den.
Stop(points, centroid) == [kind |-> "Stop", points |-> points, centroid |-> centroid]

----------------------------------------------------------------------------
(* STEPSegmenter *)

\* Configuration of demo_03 / demo_06: max_eps = 10 m, min_duration = 10 s, g = 5 m.
DemoMaxEps == 10
DemoMinDuration == 10
DemoGrid == 5

\* __init__: g is the rational g_num / g_den; threshold_sq = (max_eps / g) ** 2 is
\* kept as the largest integer not above the float the code computes (it is only
\* ever compared with integers).
StepConfig(max_eps_sq, min_duration_seconds, g_num, g_den, threshold_sq) ==
    [max_eps_sq |-> max_eps_sq, min_duration_seconds |-> min_duration_seconds,
     g_num |-> g_num, g_den |-> g_den, threshold_sq |-> threshold_sq]

DemoConfig ==
    StepConfig(DemoMaxEps * DemoMaxEps, DemoMinDuration, DemoGrid, 1,
               (DemoMaxEps * DemoMaxEps) \div (DemoGrid * DemoGrid))

\* local_distance(p1, p2) ** 2 on the tangent plane
local_distance_sq(p1, p2) ==
    (p2.lon - p1.lon) * (p2.lon - p1.lon) + (p2.lat - p1.lat) * (p2.lat - p1.lat)

\* int(d_meters // g): floor division
GridIndex(c, d_meters) == (d_meters * c.g_den) \div c.g_num

_get_cached_item(cch, off, abs_index) == cch[abs_index - off + 1]

_get_point(cch, off, abs_index) == cch[abs_index - off + 1].p

\* mutant: the start index is not made relative to cache_offset
_get_points_from_zero(cch, off, start_abs_idx, end_abs_idx) ==
    IF start_abs_idx > end_abs_idx THEN <<>>
    ELSE LET items == PySlice(cch, 0, end_abs_idx - off + 1)
         IN  [k \in 1..Len(items) |-> items[k].p]

_get_points(cch, off, start_abs_idx, end_abs_idx) ==
    IF start_abs_idx > end_abs_idx THEN <<>>
    ELSE LET rel_start == Max(0, start_abs_idx - off)
             rel_end == end_abs_idx - off
             items == PySlice(cch, rel_start, rel_end + 1)
         IN  [k \in 1..Len(items) |-> items[k].p]

\* mutant: pruning restarts the numbering of the cache at 0
_prune_cache_renumbered(cch, off, new_start_abs_idx) ==
    IF new_start_abs_idx > off
    THEN <<PySlice(cch, new_start_abs_idx - off, Len(cch)), 0>>
    ELSE <<cch, off>>

\* _prune_cache: the new <<cache, cache_offset>>
_prune_cache(cch, off, new_start_abs_idx) ==
    IF new_start_abs_idx > off
    THEN <<PySlice(cch, new_start_abs_idx - off, Len(cch)), new_start_abs_idx>>
    ELSE <<cch, off>>

\* mutant: the stay-point is emitted as a Move
_create_stop_as_move(points) == Move(points)

\* _create_stop, for non-empty points (the callers model the ValueError)
_create_stop(points) ==
    Stop(points, [lat_num |-> SumOver(points, "lat"), lon_num |-> SumOver(points, "lon"),
                  den |-> Len(points), timestamp |-> points[1].timestamp,
                  obj_id |-> points[1].obj_id])

\* mutant: the candidate Move is appended without the emptiness test
EmitMoveAlways(move_points) == <<Move(move_points)>>

\* "if move_points: segments.append(Move(points=move_points))"
EmitMove(move_points) == IF move_points # <<>> THEN <<Move(move_points)>> ELSE <<>>

\* mutant: the Confirmed test without the one-cell margin
ConfirmedWithoutMargin(c, delta_x, delta_y) ==
    delta_x * delta_x + delta_y * delta_y <= c.threshold_sq

\* The three areas of the grid short-circuit
Confirmed(c, delta_x, delta_y) ==
    (delta_x + 1) * (delta_x + 1) + (delta_y + 1) * (delta_y + 1) <= c.threshold_sq

Pruned(c, delta_x, delta_y) ==
    Max(0, delta_x - 1) * Max(0, delta_x - 1)
        + Max(0, delta_y - 1) * Max(0, delta_y - 1) > c.threshold_sq

\* mutant: the distance is compared with half the radius
WithinHalfEps(c, p1, p2) == 4 * local_distance_sq(p1, p2) <= c.max_eps_sq

\* mutant: the distance is compared with the diameter instead of the radius
WithinDiameter(c, p1, p2) == local_distance_sq(p1, p2) <= 4 * c.max_eps_sq

\* local_distance(p1, p2) <= self.max_eps
WithinEps(c, p1, p2) == local_distance_sq(p1, p2) <= c.max_eps_sq

\* mutant: any non-negative duration forms a stay-point
LongEnoughAny(c, p_c, p_i) == p_c.timestamp - p_i.timestamp >= 0

\* duration_secs >= self.min_duration_seconds
LongEnough(c, p_c, p_i) == p_c.timestamp - p_i.timestamp >= c.min_duration_seconds

\* Alg 1, the backward walk: the value of i when the while loop ends
RECURSIVE StayPointSearch(_, _, _, _, _)
StayPointSearch(c, cch, off, new, i) ==
    IF i < off THEN i
    ELSE LET item == _get_cached_item(cch, off, i)
             delta_x == Abs(item.gx - new.gx)
             delta_y == Abs(item.gy - new.gy)
         IN  IF Confirmed(c, delta_x, delta_y)
                 THEN StayPointSearch(c, cch, off, new, i - 1)
             ELSE IF Pruned(c, delta_x, delta_y)
                 THEN i + 1
             ELSE IF WithinEps(c, new.p, item.p)
                 THEN StayPointSearch(c, cch, off, new, i - 1)
             ELSE i + 1

\* mutant: a new stay-point is never merged into the one in progress
IntersectedNever(Is, sp_end) == FALSE

\* "if Is <= self.current_sp_end": the new stay-point reaches into the current one
Intersected(Is, sp_end) == Is <= sp_end

\* process_point(p_c)
\* mutant: the origin is set by the first fix ever seen only
OriginOfFirstFix(cch, org, p_c) ==
    IF org.lat = None THEN [lat |-> p_c.lat, lon |-> p_c.lon] ELSE org

\* "if not self.cache: self.origin_lat = ...; self.origin_lon = ..."
OriginOf(cch, org, p_c) ==
    IF cch = <<>> THEN [lat |-> p_c.lat, lon |-> p_c.lon] ELSE org

\* the state __init__ leaves, with nothing returned yet
Constructed ==
    [origin |-> [lat |-> None, lon |-> None], cache |-> <<>>, cache_offset |-> 0,
     current_sp_start |-> None, current_sp_end |-> None, ret |-> <<>>, raised |-> FALSE]

\* process_point(p_c) on the instance self of configuration c: the instance it
\* leaves, with the list returned in ret
process_point_on(c, self, p_c) ==
    LET org == OriginOf(self.cache, self.origin, p_c)
        new == [p |-> p_c,
                gx |-> GridIndex(c, p_c.lon - org.lon),
                gy |-> GridIndex(c, p_c.lat - org.lat)]
        cch == Append(self.cache, new)
        off == self.cache_offset
        cur == off + Len(cch) - 1
        walked == StayPointSearch(c, cch, off, new, cur - 1)
        i == IF walked < off THEN off ELSE walked
        Is == IF i <= cur /\ LongEnough(c, p_c, _get_point(cch, off, i)) THEN i ELSE None
        appended == [self EXCEPT !.origin = org, !.cache = cch, !.ret = <<>>, !.raised = FALSE]
        sp1_points == _get_points(cch, off, self.current_sp_start, self.current_sp_end)
    IN  IF Is # None
        THEN IF self.current_sp_start # None
             THEN IF Intersected(Is, self.current_sp_end)
                  THEN [appended EXCEPT !.current_sp_end = cur]
                  ELSE IF sp1_points = <<>> THEN [appended EXCEPT !.raised = TRUE]
                  ELSE LET pruned == _prune_cache(cch, off, Is)
                       IN  [appended EXCEPT
                               !.ret = <<_create_stop(sp1_points)>>
                                         \o EmitMove(_get_points(cch, off, self.current_sp_end + 1, Is - 1)),
                               !.current_sp_start = Is, !.current_sp_end = cur,
                               !.cache = pruned[1], !.cache_offset = pruned[2]]
             ELSE LET pruned == _prune_cache(cch, off, Is)
                  IN  [appended EXCEPT
                          !.ret = EmitMove(_get_points(cch, off, off, Is - 1)),
                          !.current_sp_start = Is, !.current_sp_end = cur,
                          !.cache = pruned[1], !.cache_offset = pruned[2]]
        ELSE IF self.current_sp_start # None
                  /\ ~WithinEps(c, p_c, _get_point(cch, off, self.current_sp_end))
             THEN IF sp1_points = <<>> THEN [appended EXCEPT !.raised = TRUE]
                  ELSE LET pruned == _prune_cache(cch, off, self.current_sp_end + 1)
                       IN  [appended EXCEPT
                               !.ret = <<_create_stop(sp1_points)>>,
                               !.current_sp_start = None, !.current_sp_end = None,
                               !.cache = pruned[1], !.cache_offset = pruned[2]]
             ELSE appended

\* flush() on the instance self: the instance it leaves, with the list returned in ret
flush_on(self) ==
    LET last == self.cache_offset + Len(self.cache) - 1
        sp_points == _get_points(self.cache, self.cache_offset,
                                 self.current_sp_start, self.current_sp_end)
        flushed == [self EXCEPT !.cache = <<>>, !.current_sp_start = None,
                                !.current_sp_end = None, !.raised = FALSE]
    IN  IF self.current_sp_start # None
        THEN IF sp_points = <<>> THEN [self EXCEPT !.ret = <<>>, !.raised = TRUE]
             ELSE [flushed EXCEPT
                      !.ret = <<_create_stop(sp_points)>>
                                \o EmitMove(_get_points(self.cache, self.cache_offset,
                                                        self.current_sp_end + 1, last))]
        ELSE [flushed EXCEPT
                 !.ret = EmitMove(_get_points(self.cache, self.cache_offset,
                                              self.cache_offset, last))]

process_point(p_c) ==
    LET org == OriginOf(cache, origin, p_c)
        new == [p |-> p_c,
                gx |-> GridIndex(cfg, p_c.lon - org.lon),
                gy |-> GridIndex(cfg, p_c.lat - org.lat)]
        cch == Append(cache, new)
        off == cache_offset
        c == off + Len(cch) - 1
        Ie == c
        walked == StayPointSearch(cfg, cch, off, new, c - 1)
        i == IF walked < off THEN off ELSE walked
        Is == IF i <= c /\ LongEnough(cfg, p_c, _get_point(cch, off, i)) THEN i ELSE None
        \* _create_stop raised ValueError: the fix was appended, nothing else changed
        Raised == /\ op' = "ValueError"
                  /\ ret' = <<>>
                  /\ cache' = cch
                  /\ UNCHANGED <<current_sp_start, current_sp_end, cache_offset, sp_merges>>
    IN  /\ origin' = org
        /\ input' = Append(input, p_c)
        /\ assigned' = Append(assigned, c)
        /\ fresh' = process_point_on(cfg, fresh, p_c)
        /\ calls' = calls + 1
        /\ UNCHANGED cfg
        /\ IF Is # None
           THEN IF current_sp_start # None
                THEN IF Intersected(Is, current_sp_end)
                     THEN \* Case 1.2
                          /\ current_sp_end' = Ie
                          /\ ret' = <<>>
                          /\ cache' = cch
                          /\ op' = "case_1_2"
                          /\ sp_merges' = sp_merges + 1
                          /\ UNCHANGED <<current_sp_start, cache_offset>>
                     ELSE \* Case 1.1
                          LET sp1_points == _get_points(cch, off, current_sp_start, current_sp_end)
                              move_points == _get_points(cch, off, current_sp_end + 1, Is - 1)
                              pruned == _prune_cache(cch, off, Is)
                          IN  IF sp1_points = <<>> THEN Raised
                              ELSE /\ ret' = <<_create_stop(sp1_points)>> \o EmitMove(move_points)
                                   /\ current_sp_start' = Is
                                   /\ current_sp_end' = Ie
                                   /\ cache' = pruned[1]
                                   /\ cache_offset' = pruned[2]
                                   /\ op' = "case_1_1"
                                   /\ sp_merges' = 0
                ELSE \* Case 1.3
                     LET move_points == _get_points(cch, off, off, Is - 1)
                         pruned == _prune_cache(cch, off, Is)
                     IN  /\ ret' = EmitMove(move_points)
                         /\ current_sp_start' = Is
                         /\ current_sp_end' = Ie
                         /\ cache' = pruned[1]
                         /\ cache_offset' = pruned[2]
                         /\ op' = "case_1_3"
                         /\ sp_merges' = 0
           ELSE IF current_sp_start # None
                     /\ ~WithinEps(cfg, p_c, _get_point(cch, off, current_sp_end))
                THEN \* Case 2.1
                     LET sp1_points == _get_points(cch, off, current_sp_start, current_sp_end)
                         pruned == _prune_cache(cch, off, current_sp_end + 1)
                     IN  IF sp1_points = <<>> THEN Raised
                         ELSE /\ ret' = <<_create_stop(sp1_points)>>
                              /\ cache' = pruned[1]
                              /\ cache_offset' = pruned[2]
                              /\ current_sp_start' = None
                              /\ current_sp_end' = None
                              /\ op' = "case_2_1"
                              /\ sp_merges' = 0
                ELSE \* Case 2.2 / 2.3
                     /\ ret' = <<>>
                     /\ cache' = cch
                     /\ op' = "case_2_2"
                     /\ UNCHANGED <<current_sp_start, current_sp_end, cache_offset, sp_merges>>
        /\ emitted' = emitted \o ret'

\* flush()
flush ==
    LET last == cache_offset + Len(cache) - 1
        sp_points == _get_points(cache, cache_offset, current_sp_start, current_sp_end)
    IN  IF current_sp_start # None /\ sp_points = <<>>
        THEN \* _create_stop raised ValueError before anything was reset
             /\ op' = "flush_ValueError"
             /\ ret' = <<>>
             /\ calls' = calls + 1
             /\ fresh' = flush_on(fresh)
             /\ UNCHANGED <<cfg, origin, cache, cache_offset, current_sp_start,
                            current_sp_end, input, emitted, sp_merges, assigned>>
        ELSE /\ IF current_sp_start # None
                THEN LET move_points == _get_points(cache, cache_offset, current_sp_end + 1, last)
                     IN  ret' = <<_create_stop(sp_points)>> \o EmitMove(move_points)
                ELSE LET move_points == _get_points(cache, cache_offset, cache_offset, last)
                     IN  ret' = EmitMove(move_points)
             /\ cache' = <<>>
             /\ current_sp_start' = None
             /\ current_sp_end' = None
             /\ op' = "flush"
             /\ calls' = calls + 1
             /\ sp_merges' = 0
             /\ emitted' = emitted \o ret'
             /\ fresh' = IF flush_on(fresh).raised
                         THEN flush_on(fresh)
                         ELSE [Constructed EXCEPT !.ret = flush_on(fresh).ret]
             /\ UNCHANGED <<cfg, origin, cache_offset, input, assigned>>

----------------------------------------------------------------------------
(* OnlineMapMatcher.  The HMM matcher of leuvenmapmatching and the road graph are   *)
(* outside the repository: what DistanceMatcher.match and G.get_edge_data return for *)
(* a window is a nondeterministic outcome.  Roads run along lat = RoadLat and the    *)
(* raw fixes lie off the road, so that snapping changes the coordinates.             *)

RoadLat == 0
RawLat == 1

\* r_id: an osmid of the graph, or the synthetic f"{u}-{v}"; road ids are numbered so
\* that they compare with each other and with None
OsmId == 1
SyntheticId == 2

\* What matching the window can produce for its oldest fix:
\*   matched = FALSE                  states is empty, or match() raised
\*   road_id = OsmId, snap = TRUE     edge data with key 0 and an osmid
\*   road_id = SyntheticId            no osmid at key 0 (snapped iff key 0 exists)
MatchOutcomes ==
    {[matched |-> FALSE, road_id |-> SyntheticId, snap |-> FALSE],
     [matched |-> TRUE, road_id |-> OsmId, snap |-> TRUE],
     [matched |-> TRUE, road_id |-> SyntheticId, snap |-> TRUE],
     [matched |-> TRUE, road_id |-> SyntheticId, snap |-> FALSE]}

\* a matching that would hand back the newest fix of the window
_match_window_newest(buffer, outcome) ==
    LET newest_point == buffer[Len(buffer)]
    IN  IF outcome.matched
        THEN [newest_point EXCEPT !.road_id = outcome.road_id,
                                  !.lat = IF outcome.snap THEN RoadLat ELSE @]
        ELSE newest_point

\* a matching that would tag the fix whether or not there are states
_match_window_always_tags(buffer, outcome) ==
    [buffer[1] EXCEPT !.road_id = outcome.road_id,
                      !.lat = IF outcome.snap THEN RoadLat ELSE @]

\* _match_window() on a non-empty buffer, for one outcome of the matching
_match_window(buffer, outcome) ==
    LET oldest_point == buffer[1]
    IN  IF outcome.matched
        THEN [oldest_point EXCEPT !.road_id = outcome.road_id,
                                  !.lat = IF outcome.snap THEN RoadLat ELSE @]
        ELSE oldest_point

MatcherInit(window_size) ==
    /\ mm_window = window_size
    /\ mm_buffer = <<>>
    /\ mm_op = "init"
    /\ mm_ret = <<>>
    /\ mm_in = <<>>
    /\ mm_out = <<>>
    /\ mm_calls = 0
    /\ mm_outcomes = <<>>
    /\ mm_peak = 0

\* a test that would also hold back the fix that fills the window
WindowNotOverfull(buffer) == Len(buffer) <= mm_window

\* line 78: the window has not enough context yet
WindowNotFull(buffer) == Len(buffer) < mm_window

\* OnlineMapMatcher.process_point(point)
mm_process_point(point, outcome) ==
    LET buffer == Append(mm_buffer, point)
    IN  /\ mm_in' = Append(mm_in, point)
        /\ mm_calls' = mm_calls + 1
        /\ mm_op' = "process_point"
        /\ mm_peak' = Len(buffer)
        /\ IF WindowNotFull(buffer)
           THEN /\ mm_buffer' = buffer
                /\ mm_ret' = <<>>
                /\ mm_outcomes' = <<>>
           ELSE /\ mm_ret' = <<_match_window(buffer, outcome)>>
                /\ mm_buffer' = Tail(buffer)
                /\ mm_outcomes' = <<outcome>>
        /\ mm_out' = mm_out \o mm_ret'
        /\ UNCHANGED mm_window

\* The list flush() builds: one matching of the shrinking buffer per remaining fix
RECURSIVE flushed_points(_, _)
flushed_points(buffer, outcomes) ==
    IF buffer = <<>> THEN <<>>
    ELSE <<_match_window(buffer, Head(outcomes))>> \o flushed_points(Tail(buffer), Tail(outcomes))

\* OnlineMapMatcher.flush()
mm_flush(outcomes) ==
    /\ mm_ret' = flushed_points(mm_buffer, outcomes)
    /\ mm_buffer' = <<>>
    /\ mm_op' = "flush"
    /\ mm_calls' = mm_calls + 1
    /\ mm_outcomes' = outcomes
    /\ mm_peak' = Len(mm_buffer)
    /\ mm_out' = mm_out \o mm_ret'
    /\ UNCHANGED <<mm_window, mm_in>>

MatcherProcessPoint ==
    /\ focus = "mm"
    /\ mm_calls < MaxMatcherCalls
    /\ \E outcome \in MatchOutcomes :
          /\ (Len(mm_buffer) + 1 < mm_window) => outcome = CHOOSE o \in MatchOutcomes : ~o.matched
          /\ mm_process_point(Point(Len(mm_in), RawLat, Len(mm_in), Len(mm_in), None), outcome)
    /\ UNCHANGED <<focus, s1_hops, stepVars, sqVars, offlineVars>>

MatcherFlush ==
    /\ focus = "mm"
    /\ mm_calls < MaxMatcherCalls
    /\ \E outcomes \in [1..Len(mm_buffer) -> MatchOutcomes] : mm_flush(outcomes)
    /\ UNCHANGED <<focus, s1_hops, stepVars, sqVars, offlineVars>>

----------------------------------------------------------------------------
(* SquishCompressor.  One call of compress is followed through its loop: the  *)
(* call itself (lines 33-57), one step per fix ingested (lines 59-99) and the  *)
(* final traversal (lines 101-109).  Node and heap positions are 0-based as in *)
(* the code; nodes[i + 1] is the node of index i.                              *)

MinCapacity == 3

\* The capacity argument of compress: <<>> stands for None, <<k>> for the integer k
Capacities == {<<>>} \cup {<<k>> : k \in (0 - 1)..MaxCapacity}

\* A priority is kept as the exact fraction num / den of the SQUARE of the float
\* the code computes (sqrt is monotone); float('inf') is 1 / 0.  The fraction is
\* exact where the float is rounded: two priorities that are equal as fractions
\* can differ in their last bit as floats (a time ratio of thirds), and the code
\* then evicts the other node of such a pair.
Inf == [num |-> 1, den |-> 0]

\* float('nan') as a coordinate, and as a priority (0 / 0)
NaN == 0 - 2

NaNPriority == [num |-> 0, den |-> 0]

IsNaN(a) == a.num = 0 /\ a.den = 0

\* a < b of two floats: False when either is nan
PriorityLess(a, b) == a.num * b.den < b.num * a.den

PriorityEq(a, b) == ~IsNaN(a) /\ ~IsNaN(b) /\ a.num * b.den = b.num * a.den

\* PriorityObject(priority, index), ordered by priority alone
PriorityObject(priority, index) == [priority |-> priority, index |-> index]

\* heapq._siftdown(heap, startpos, pos) with newitem held aside
RECURSIVE _siftdown(_, _, _, _)
_siftdown(heap, startpos, pos, newitem) ==
    IF pos > startpos
    THEN LET parentpos == (pos - 1) \div 2
             parent == heap[parentpos + 1]
         IN  IF PriorityLess(newitem.priority, parent.priority)
             THEN _siftdown([heap EXCEPT ![pos + 1] = parent], startpos, parentpos, newitem)
             ELSE [heap EXCEPT ![pos + 1] = newitem]
    ELSE [heap EXCEPT ![pos + 1] = newitem]

\* heapq.heappush(heap, item)
heappush(heap, item) == _siftdown(Append(heap, item), 0, Len(heap), item)

\* heapq._siftup(heap, pos): bubble the smaller child up to a leaf, then sift newitem down
RECURSIVE _siftup(_, _, _, _)
_siftup(heap, startpos, pos, newitem) ==
    LET endpos == Len(heap)
        leftpos == 2 * pos + 1
        rightpos == leftpos + 1
        childpos == IF rightpos < endpos
                       /\ ~PriorityLess(heap[leftpos + 1].priority, heap[rightpos + 1].priority)
                    THEN rightpos ELSE leftpos
    IN  IF leftpos < endpos
        THEN _siftup([heap EXCEPT ![pos + 1] = heap[childpos + 1]], startpos, childpos, newitem)
        ELSE _siftdown(heap, startpos, pos, newitem)

\* heapq.heappop(heap) on a non-empty heap: <<item, heap>>
heappop(heap) ==
    LET lastelt == heap[Len(heap)]
        rest == SubSeq(heap, 1, Len(heap) - 1)
    IN  IF rest # <<>>
        THEN <<rest[1], _siftup(rest, 0, 0, lastelt)>>
        ELSE <<lastelt, rest>>

\* SquishCompressor._compute_priority(p1, p2, p3), squared
_compute_priority(p1, p2, p3) ==
    LET t1 == p1.timestamp
        t2 == p2.timestamp
        t3 == p3.timestamp
        d_lat == (p2.lat - p1.lat) * (t3 - t1) - (p3.lat - p1.lat) * (t2 - t1)
        d_lon == (p2.lon - p1.lon) * (t3 - t1) - (p3.lon - p1.lon) * (t2 - t1)
    IN  IF t1 = t3
        THEN [num |-> 0, den |-> 1]
        ELSE IF NaN \in {p1.lat, p2.lat, p3.lat, p1.lon, p2.lon, p3.lon}
        THEN NaNPriority
        ELSE [num |-> d_lat * d_lat + d_lon * d_lon, den |-> (t3 - t1) * (t3 - t1)]

\* Node(point, index): the point is points[index + 1]
Node(index) == [index |-> index, prev |-> None, next |-> None, priority |-> Inf, removed |-> FALSE]

\* node.priority = p; heapq.heappush(pq, PriorityObject(p, node.index))
Reprioritise(points, st, index, i1, i3) ==
    LET p == _compute_priority(points[i1 + 1], points[index + 1], points[i3 + 1])
    IN  [nodes |-> [st.nodes EXCEPT ![index + 1].priority = p],
         pq |-> heappush(st.pq, PriorityObject(p, index))]

\* a removal that marks the node and leaves the list as it is
_remove_node_mark_only(points, st, index) ==
    [nodes |-> [st.nodes EXCEPT ![index + 1].removed = TRUE], pq |-> st.pq]

\* SquishCompressor._remove_node(node, pq)
_remove_node(points, st, index) ==
    LET node == st.nodes[index + 1]
        prev_node == node.prev
        next_node == node.next
        n1 == [st.nodes EXCEPT ![index + 1].removed = TRUE]
        n2 == IF prev_node # None THEN [n1 EXCEPT ![prev_node + 1].next = next_node] ELSE n1
        n3 == IF next_node # None THEN [n2 EXCEPT ![next_node + 1].prev = prev_node] ELSE n2
        s3 == [nodes |-> n3, pq |-> st.pq]
        s4 == IF prev_node # None /\ next_node # None /\ n3[prev_node + 1].prev # None
              THEN Reprioritise(points, s3, prev_node, n3[prev_node + 1].prev, next_node)
              ELSE s3
    IN  IF next_node # None /\ prev_node # None /\ s4.nodes[next_node + 1].next # None
        THEN Reprioritise(points, s4, next_node, prev_node, s4.nodes[next_node + 1].next)
        ELSE s4

\* Lines 60-73 and 77-86: link the new node behind the last one of the buffer and
\* give that one a priority if it has become interior
LinkNewNode(points, st, buffer, new) ==
    IF buffer = <<>> THEN st
    ELSE LET last_node == buffer[Len(buffer)]
             n1 == [st.nodes EXCEPT ![last_node + 1].next = new, ![new + 1].prev = last_node]
             s1 == [nodes |-> n1, pq |-> st.pq]
         IN  IF n1[last_node + 1].prev # None
             THEN Reprioritise(points, s1, last_node, n1[last_node + 1].prev, new)
             ELSE s1

\* mutant: every popped entry is taken for valid
ValidEntryAlways(nodes, item) == TRUE

\* a heap entry the victim search stops at (line 94)
ValidEntry(nodes, item) ==
    /\ ~nodes[item.index + 1].removed
    /\ PriorityEq(nodes[item.index + 1].priority, item.priority)

\* a victim search that would settle on the node linked last
FindVictimNewest(nodes, pq) ==
    [raised |-> FALSE, skipped |-> <<>>,
     index |-> CHOOSE k \in 0..(Len(nodes) - 1) :
                  /\ nodes[k + 1].prev # None
                  /\ \A j \in (k + 1)..(Len(nodes) - 1) : nodes[j + 1].prev = None,
     pq |-> pq]

\* Lines 89-95: pop until a valid entry surfaces; heappop of the empty heap raises
RECURSIVE FindVictim(_, _)
FindVictim(nodes, pq) ==
    IF pq = <<>> THEN [raised |-> TRUE, skipped |-> <<>>, index |-> None, pq |-> pq]
    ELSE LET popped == heappop(pq)
         IN  IF ValidEntry(nodes, popped[1])
             THEN [raised |-> FALSE, skipped |-> <<>>, index |-> popped[1].index,
                   pq |-> popped[2]]
             ELSE [FindVictim(nodes, popped[2]) EXCEPT !.skipped = <<popped[1]>> \o @]

\* list.remove(x): drops the first occurrence
RECURSIVE ListRemove(_, _)
ListRemove(s, x) ==
    IF s = <<>> THEN s
    ELSE IF Head(s) = x THEN Tail(s) ELSE <<Head(s)>> \o ListRemove(Tail(s), x)

\* a traversal that follows prev from the node linked last
RECURSIVE FollowPrev(_, _, _)
FollowPrev(points, nodes, curr) ==
    IF curr = None THEN <<>>
    ELSE <<points[curr + 1]>> \o FollowPrev(points, nodes, nodes[curr + 1].prev)

CollectBackwards(points, nodes, curr) ==
    FollowPrev(points, nodes,
               CHOOSE k \in 0..(Len(nodes) - 1) :
                  /\ nodes[k + 1].prev # None \/ Len(nodes) = 1
                  /\ \A j \in (k + 1)..(Len(nodes) - 1) : nodes[j + 1].prev = None)

\* Lines 101-109: follow next from nodes[0]
RECURSIVE CollectResult(_, _, _)
CollectResult(points, nodes, curr) ==
    IF curr = None THEN <<>>
    ELSE <<points[curr + 1]>> \o CollectResult(points, nodes, nodes[curr + 1].next)

\* target_capacity (line 37)
target_capacity == IF sq_override # <<>> THEN sq_override[1] ELSE sq_capacity

\* __init__(capacity): lines 20-22, the check that raises
TooSmallNever(capacity) == FALSE

TooSmall(capacity) == capacity < MinCapacity

\* __init__(capacity): lines 13-22, from the state in which no instance exists
__init__(capacity) ==
    /\ sq_asked' = capacity
    /\ IF TooSmall(capacity)
       THEN /\ sq_pc' = "ValueError"
            /\ UNCHANGED sq_capacity
       ELSE /\ sq_pc' = "idle"
            /\ sq_capacity' = capacity

SquishInit(capacity) ==
    /\ sq_capacity = capacity
    /\ sq_asked = capacity
    /\ sq_override = <<>>
    /\ sq_points = <<>>
    /\ sq_pc = "idle"
    /\ sq_i = 0
    /\ sq_nodes = <<>>
    /\ sq_pq = <<>>
    /\ sq_buffer = <<>>
    /\ sq_victims = <<>>
    /\ sq_stale = <<>>
    /\ sq_pushed = <<>>
    /\ sq_result = <<>>

\* compress(points, capacity): lines 33-57
compress(points, capacity) ==
    LET target == IF capacity # <<>> THEN capacity[1] ELSE sq_capacity
    IN  /\ sq_points' = points
        /\ sq_override' = capacity
        /\ sq_i' = 0
        /\ sq_pq' = <<>>
        /\ sq_buffer' = <<>>
        /\ sq_victims' = <<>>
        /\ sq_stale' = <<>>
        /\ sq_pushed' = <<>>
        /\ IF points = <<>> \/ Len(points) <= target
           THEN /\ sq_pc' = "returned"
                /\ sq_result' = points
                /\ sq_nodes' = <<>>
           ELSE /\ sq_pc' = "loop"
                /\ sq_result' = <<>>
                /\ sq_nodes' = [k \in 1..Len(points) |-> Node(k - 1)]
        /\ UNCHANGED <<sq_capacity, sq_asked>>

\* the entry pushed at line 71 or 84, if the last node of the buffer had a predecessor
PushedByLink(nodes, buffer) ==
    IF buffer # <<>> /\ nodes[buffer[Len(buffer)] + 1].prev # None
    THEN <<PriorityObject(nodes[buffer[Len(buffer)] + 1].priority, buffer[Len(buffer)])>>
    ELSE <<>>

\* the entries pushed at lines 124 and 129, nodes being the list after the removal
\* of a node that stood between prev_node and next_node
PushedByRemoval(nodes, prev_node, next_node) ==
    (IF prev_node # None /\ next_node # None /\ nodes[prev_node + 1].prev # None
     THEN <<PriorityObject(nodes[prev_node + 1].priority, prev_node)>> ELSE <<>>)
    \o (IF prev_node # None /\ next_node # None /\ nodes[next_node + 1].next # None
        THEN <<PriorityObject(nodes[next_node + 1].priority, next_node)>> ELSE <<>>)

\* One pass of the loop of lines 59-99, for i = sq_i
IngestFix ==
    LET new == sq_i
        st0 == [nodes |-> sq_nodes, pq |-> sq_pq]
        st1 == LinkNewNode(sq_points, st0, sq_buffer, new)
        victim == FindVictim(st1.nodes, st1.pq)
        st2 == _remove_node(sq_points, [nodes |-> st1.nodes, pq |-> victim.pq], victim.index)
    IN  IF Len(sq_buffer) < target_capacity
        THEN /\ sq_nodes' = st1.nodes
             /\ sq_pq' = st1.pq
             /\ sq_buffer' = Append(sq_buffer, new)
             /\ sq_i' = sq_i + 1
             /\ sq_pushed' = sq_pushed \o PushedByLink(st1.nodes, sq_buffer)
             /\ UNCHANGED <<sq_pc, sq_victims, sq_stale>>
        ELSE IF sq_buffer = <<>> \/ victim.raised
        THEN /\ sq_pc' = "IndexError"
             /\ sq_stale' = IF sq_buffer = <<>> THEN sq_stale ELSE sq_stale \o victim.skipped
             /\ UNCHANGED <<sq_nodes, sq_pq, sq_buffer, sq_i, sq_victims, sq_pushed>>
        ELSE /\ sq_nodes' = st2.nodes
             /\ sq_pq' = st2.pq
             /\ sq_buffer' = ListRemove(Append(sq_buffer, new), victim.index)
             /\ sq_victims' = Append(sq_victims, victim.index)
             /\ sq_stale' = sq_stale \o victim.skipped
             /\ sq_pushed' = sq_pushed \o PushedByLink(st1.nodes, sq_buffer)
                                \o PushedByRemoval(st2.nodes, st1.nodes[victim.index + 1].prev,
                                                   st1.nodes[victim.index + 1].next)
             /\ sq_i' = sq_i + 1
             /\ UNCHANGED sq_pc

\* timestamp of the k-th fix of a list whose fixes follow each other by gaps
RECURSIVE TimeOf(_, _)
TimeOf(gaps, k) == IF k = 1 THEN 0 ELSE TimeOf(gaps, k - 1) + gaps[k]

SquishCompress ==
    /\ focus = "squish"
    /\ sq_pc = "idle"
    /\ \E n \in 0..MaxPoints, capacity \in Capacities :
          /\ capacity # <<>> => sq_capacity = MinCapacity
          /\ \E lats \in [1..n -> 0..MaxSquishLat], gaps \in [2..n -> 0..MaxSquishGap] :
                compress([k \in 1..n |-> Point(k - 1, lats[k], 0, TimeOf(gaps, k), None)], capacity)
    /\ UNCHANGED <<focus, s1_hops, stepVars, mmVars, offlineVars>>

\* SquishCompressor(capacity): the constructor call
SquishConstruct ==
    /\ focus = "squish"
    /\ sq_pc = "new"
    /\ \E capacity \in (0 - 1)..MaxCapacity : __init__(capacity)
    /\ UNCHANGED <<sq_override, sq_points, sq_i, sq_nodes, sq_pq, sq_buffer, sq_victims,
                   sq_stale, sq_pushed, sq_result>>
    /\ UNCHANGED <<focus, s1_hops, stepVars, mmVars, offlineVars>>

SquishIngest ==
    /\ focus = "squish"
    /\ sq_pc = "loop"
    /\ sq_i < Len(sq_points)
    /\ IngestFix
    /\ UNCHANGED <<sq_capacity, sq_asked, sq_override, sq_points, sq_result>>
    /\ UNCHANGED <<focus, s1_hops, stepVars, mmVars, offlineVars>>

SquishReturn ==
    /\ focus = "squish"
    /\ sq_pc = "loop"
    /\ sq_i = Len(sq_points)
    /\ sq_result' = CollectResult(sq_points, sq_nodes, 0)
    /\ sq_pc' = "returned"
    /\ UNCHANGED <<sq_capacity, sq_asked, sq_override, sq_points, sq_i, sq_nodes, sq_pq, sq_buffer,
                   sq_victims, sq_stale, sq_pushed>>
    /\ UNCHANGED <<focus, s1_hops, stepVars, mmVars, offlineVars>>

----------------------------------------------------------------------------
(* benchmarks/oracles/stc.py: STCOracle.process, one call on a segment *)

\* Point.__eq__ of the frozen dataclass: all five fields, which the ordinal n is not
PointEq(p, q) ==
    /\ p.lat = q.lat /\ p.lon = q.lon /\ p.timestamp = q.timestamp
    /\ p.obj_id = q.obj_id /\ p.road_id = q.road_id

\* a test that would take every fix that has a road id
RoadIsSet(point, current_road) == point.road_id # None

\* line 53: the fix is on another road than the current one
RoadChanged(point, current_road) == point.road_id # current_road

\* Lines 38-55, from the fix of index idx (0-based) on
RECURSIVE StcLoop(_, _, _, _)
StcLoop(points, idx, compressed, current_road) ==
    IF idx = Len(points) THEN compressed
    ELSE LET point == points[idx + 1]
         IN  IF idx = 0
             THEN StcLoop(points, idx + 1, Append(compressed, point), point.road_id)
             ELSE IF idx = Len(points) - 1
             THEN StcLoop(points, idx + 1,
                          IF ~PointEq(compressed[Len(compressed)], point)
                          THEN Append(compressed, point) ELSE compressed,
                          current_road)
             ELSE IF RoadChanged(point, current_road)
             THEN StcLoop(points, idx + 1, Append(compressed, point), point.road_id)
             ELSE StcLoop(points, idx + 1, compressed, current_road)

\* mutant: the origin of the chunk sequence is left out of a longer result
stc_process_without_origin(points) ==
    IF Len(points) <= 1 THEN points ELSE Tail(StcLoop(points, 0, <<>>, None))

\* STCOracle.process(segment)
stc_process(points) ==
    IF points = <<>> THEN <<>>
    ELSE IF Len(points) <= 1 THEN points
    ELSE StcLoop(points, 0, <<>>, None)

OfflineInit ==
    /\ stc_points = <<>>
    /\ stc_pc = "idle"
    /\ stc_result = <<>>
    /\ sc_points = <<>>
    /\ sc_pc = "idle"
    /\ sc_result = <<>>
    /\ sed_original = <<>>
    /\ sed_compressed = <<>>
    /\ sed_pc = "idle"
    /\ sed_stats = <<>>

\* place and time of the k-th fix: it repeats its predecessor's or moves on by one
RECURSIVE PlaceOf(_, _)
PlaceOf(moved, k) == IF k = 1 THEN 0 ELSE PlaceOf(moved, k - 1) + (IF moved[k] THEN 1 ELSE 0)

StcProcess ==
    /\ focus = "stc"
    /\ stc_pc = "idle"
    /\ \E n \in 0..MaxStcPoints :
          \E roads \in [1..n -> {None} \cup 1..MaxRoad], moved \in [2..n -> BOOLEAN] :
             LET points == [k \in 1..n |->
                               Point(k - 1, PlaceOf(moved, k), 0, PlaceOf(moved, k), roads[k])]
             IN  /\ stc_points' = points
                 /\ stc_result' = stc_process(points)
    /\ stc_pc' = "returned"
    /\ UNCHANGED <<focus, s1_hops, stepVars, mmVars, sqVars, scVars, sedVars>>

----------------------------------------------------------------------------
(* modules/stop_compression/compressor.py: StopCompressor.compress, one call *)

\* the objects the fixes of a stop can belong to
ObjIds == {DefaultObj, "obj2"}

CompressedStop(centroid, start_time, end_time) ==
    [centroid |-> centroid, start_time |-> start_time, end_time |-> end_time]

\* a summary that would be stamped with the last fix
SummaryOfLast(points) ==
    CompressedStop([lat_num |-> SumOver(points, "lat"), lon_num |-> SumOver(points, "lon"),
                    den |-> Len(points), timestamp |-> points[Len(points)].timestamp,
                    obj_id |-> points[Len(points)].obj_id, road_id |-> None],
                   points[Len(points)].timestamp, points[Len(points)].timestamp)

\* Lines 21-43.  The centroid is the exact mean: lat = lat_num / den, lon = lon_num / den.
Summary(points) ==
    LET start_time == points[1].timestamp
        end_time == points[Len(points)].timestamp
    IN  CompressedStop([lat_num |-> SumOver(points, "lat"), lon_num |-> SumOver(points, "lon"),
                        den |-> Len(points), timestamp |-> start_time,
                        obj_id |-> points[1].obj_id, road_id |-> None],
                       start_time, end_time)

\* a compress that would hand back nothing for no points
sc_compress_lenient(points) ==
    /\ sc_points' = points
    /\ sc_pc' = "returned"
    /\ sc_result' = IF points = <<>> THEN <<>> ELSE <<Summary(points)>>

\* StopCompressor.compress(points)
sc_compress(points) ==
    /\ sc_points' = points
    /\ IF points = <<>>
       THEN /\ sc_pc' = "ValueError"
            /\ sc_result' = <<>>
       ELSE /\ sc_pc' = "returned"
            /\ sc_result' = <<Summary(points)>>

StopCompress ==
    /\ focus = "stop"
    /\ sc_pc = "idle"
    /\ \E n \in 0..MaxStopPoints :
          \E lats \in [1..n -> 0..MaxStopLat], times \in [1..n -> 0..MaxStopTime],
             objs \in [1..n -> ObjIds] :
             sc_compress([k \in 1..n |->
                            [Point(k - 1, lats[k], 2 * lats[k] + 1, times[k], None)
                                EXCEPT !.obj_id = objs[k]]])
    /\ UNCHANGED <<focus, s1_hops, stepVars, mmVars, sqVars, stcVars, sedVars>>

----------------------------------------------------------------------------
(* metrics/sed.py: the SED metric.  Fixes lie on the meridian lon = 0, so   *)
(* d_lon_m is 0 and an error is 111320 * |d_lat|: errors are kept as exact  *)
(* fractions num / den of a degree of latitude (den > 0), and rmse as its   *)
(* square, mse.                                                             *)

Frac(num, den) == [num |-> num, den |-> den]

MetresPerDegree == 111320

Millionth == 1000000

FracAdd(a, b) == Frac(a.num * b.den + b.num * a.den, a.den * b.den)

FracLess(a, b) == a.num * b.den < b.num * a.den

\* the geometric distance of lines 24-29, 82-88, 97-103
DistTo(p, p_ref) == Frac(Abs(p.lat - p_ref.lat), 1)

\* calculate_sed_error(p_original, p_start, p_end): lines 5-46
calculate_sed_error(p_original, p_start, p_end) ==
    LET t_orig == p_original.timestamp
        t_start == p_start.timestamp
        t_end == p_end.timestamp
    IN  IF t_start = t_end
        THEN DistTo(p_original, p_start)
        ELSE Frac(Abs((p_original.lat - p_start.lat) * (t_end - t_start)
                        - (p_end.lat - p_start.lat) * (t_orig - t_start)),
                  Abs(t_end - t_start))

\* math.cos(math.radians(lat_sum / 2.0)) squared, in millionths, for a sum of
\* two latitudes of 0..10 whole degrees (rounded to the nearest millionth)
CosSqMillionths(lat_sum) ==
    <<1000000, 999924, 999695, 999315, 998782, 998097, 997261, 996273, 995134, 993844, 992404>>[lat_sum + 1]

\* calculate_sed_error(p_original, p_start, p_end) for fixes off the meridian,
\* lines 5-46.  The value returned is MetresPerDegree * sqrt(q), where q is
\* d_lat^2 + (d_lon * cos(avg_lat))^2 in degrees; the operator gives q as an
\* exact fraction (the square root and the common factor are not taken).
calculate_sed_error_sq(p_original, p_start, p_end) ==
    LET t_orig == p_original.timestamp
        t_start == p_start.timestamp
        t_end == p_end.timestamp
        d_lat0 == p_original.lat - p_start.lat
        d_lon0 == p_original.lon - p_start.lon
        d_lat == (p_original.lat - p_start.lat) * (t_end - t_start)
                    - (p_end.lat - p_start.lat) * (t_orig - t_start)
        d_lon == (p_original.lon - p_start.lon) * (t_end - t_start)
                    - (p_end.lon - p_start.lon) * (t_orig - t_start)
    IN  IF t_start = t_end
        THEN Frac(d_lat0 * d_lat0 * Millionth
                    + d_lon0 * d_lon0 * CosSqMillionths(p_original.lat + p_start.lat),
                  Millionth)
        ELSE Frac(d_lat * d_lat * Millionth
                    + d_lon * d_lon * CosSqMillionths(p_start.lat + p_end.lat),
                  Millionth * (t_end - t_start) * (t_end - t_start))

\* one call of calculate_sed_error on three fixes
SedError ==
    /\ focus = "sed_error"
    /\ sed_pc = "idle"
    /\ \E lats \in [1..3 -> 0..MaxSedLat], lons \in [1..3 -> 0..MaxSedLon],
          times \in [1..3 -> 0..MaxSedTime] :
          LET fix(k) == Point(k - 1, lats[k], lons[k], times[k], None)
          IN  /\ sed_original' = <<fix(1)>>
              /\ sed_compressed' = <<fix(2), fix(3)>>
              /\ sed_stats' = [error_sq |-> calculate_sed_error_sq(fix(1), fix(2), fix(3))]
    /\ sed_pc' = "returned"
    /\ UNCHANGED <<focus, s1_hops, stepVars, mmVars, sqVars, stcVars, scVars>>

\* the while loop of line 76; comp_idx counts from 0 as in the code
RECURSIVE AdvanceCompIdx(_, _, _)
AdvanceCompIdx(compressed, p, comp_idx) ==
    IF comp_idx < Len(compressed) - 1 /\ p.timestamp > compressed[comp_idx + 2].timestamp
    THEN AdvanceCompIdx(compressed, p, comp_idx + 1)
    ELSE comp_idx

\* the for loop of lines 73-108, from the k-th original fix on
RECURSIVE SedErrors(_, _, _, _)
SedErrors(original, compressed, k, comp_idx) ==
    IF k > Len(original)
    THEN <<>>
    ELSE LET p == original[k]
             idx == AdvanceCompIdx(compressed, p, comp_idx)
             error == IF idx >= Len(compressed) - 1
                      THEN DistTo(p, compressed[Len(compressed)])
                      ELSE IF p.timestamp < compressed[idx + 1].timestamp
                      THEN DistTo(p, compressed[idx + 1])
                      ELSE calculate_sed_error(p, compressed[idx + 1], compressed[idx + 2])
         IN  <<error>> \o SedErrors(original, compressed, k + 1, idx)

RECURSIVE SumErrors(_)
SumErrors(errors) ==
    IF errors = <<>> THEN Frac(0, 1) ELSE FracAdd(errors[1], SumErrors(Tail(errors)))

RECURSIVE MaxError(_)
MaxError(errors) ==
    IF Len(errors) = 1
    THEN errors[1]
    ELSE LET rest == MaxError(Tail(errors))
         IN  IF FracLess(errors[1], rest) THEN rest ELSE errors[1]

ZeroStats == [average_sed |-> Frac(0, 1), max_sed |-> Frac(0, 1), mse |-> Frac(0, 1),
              sed_errors |-> <<>>]

\* calculate_sed_stats(original, compressed): lines 48-127
calculate_sed_stats(original, compressed) ==
    IF original = <<>> \/ compressed = <<>>
    THEN ZeroStats
    ELSE LET sed_errors == SedErrors(original, compressed, 1, 0)
             total == SumErrors(sed_errors)
             squares == SumErrors([k \in 1..Len(sed_errors) |->
                                     Frac(sed_errors[k].num * sed_errors[k].num,
                                          sed_errors[k].den * sed_errors[k].den)])
         IN  [average_sed |-> Frac(total.num, total.den * Len(sed_errors)),
              max_sed |-> MaxError(sed_errors),
              mse |-> Frac(squares.num, squares.den * Len(sed_errors)),
              sed_errors |-> sed_errors]

\* calculate_sed_stats on a list of fixes with non-decreasing timestamps and
\* a sub-list of it (the whole list included)
SedStats ==
    /\ focus = "sed"
    /\ sed_pc = "idle"
    /\ \E n \in 0..MaxSedPoints :
          \E lats \in [1..n -> 0..MaxSedLat], gaps \in [2..n -> 0..MaxSedGap],
             keep \in [1..n -> BOOLEAN] :
             LET original == [k \in 1..n |-> Point(k - 1, lats[k], 0, TimeOf(gaps, k), None)]
                 compressed == SelectSeq(original, LAMBDA q : keep[q.n + 1])
             IN  /\ sed_original' = original
                 /\ sed_compressed' = compressed
                 /\ sed_stats' = calculate_sed_stats(original, compressed)
    /\ sed_pc' = "returned"
    /\ UNCHANGED <<focus, s1_hops, stepVars, mmVars, sqVars, stcVars, scVars>>

----------------------------------------------------------------------------
(* A segmenter fed arbitrary fixes (Spec) or a time-ordered stream (SpecMono) *)

StepInit(config) ==
    /\ cfg = config
    /\ origin = [lat |-> None, lon |-> None]
    /\ cache = <<>>
    /\ cache_offset = 0
    /\ current_sp_start = None
    /\ current_sp_end = None
    /\ op = "init"
    /\ ret = <<>>
    /\ input = <<>>
    /\ emitted = <<>>
    /\ calls = 0
    /\ sp_merges = 0
    /\ assigned = <<>>
    /\ fresh = Constructed

LastTime == IF input = <<>> THEN 0 ELSE input[Len(input)].timestamp

\* process_point with a fix at any position and any timestamp
StepProcessPoint ==
    /\ focus = "step"
    /\ calls < MaxCalls
    /\ \E la \in 0..MaxLat, lo \in 0..MaxLon, t \in 0..MaxTime :
          process_point(Point(Len(input), CoordStep * la, CoordStep * lo, TimeStep * t, None))
    /\ UNCHANGED <<focus, s1_hops, mmVars, sqVars, offlineVars>>

\* process_point with a fix at any position, not earlier than its predecessor
StepProcessNext ==
    /\ focus = "step"
    /\ calls < MaxCalls
    /\ \E la \in 0..MaxLat, lo \in 0..MaxLon, dt \in 0..MaxGap :
          process_point(Point(Len(input), CoordStep * la, CoordStep * lo,
                              LastTime + TimeStep * dt, None))
    /\ UNCHANGED <<focus, s1_hops, mmVars, sqVars, offlineVars>>

StepFlush ==
    /\ focus = "step"
    /\ calls < MaxCalls
    /\ flush
    /\ UNCHANGED <<focus, s1_hops, mmVars, sqVars, offlineVars>>

Init == focus = "step" /\ StepInit(DemoConfig) /\ s1_hops = 0 /\ MatcherInit(1) /\ SquishInit(MinCapacity) /\ OfflineInit

Next == StepProcessPoint \/ StepFlush

Spec == Init /\ [][Next]_vars

\* a segmenter that is only fed fixes
NextIngest == StepProcessPoint

\* a longer life of one segmenter, flushed and used again: the fixes are at one
\* of two places farther apart than max_eps, at any of the timestamps
StepProcessAgain ==
    /\ focus = "step"
    /\ calls < MaxReuseCalls
    /\ \E lo \in {0, MaxLon}, t \in 0..MaxTime :
          process_point(Point(Len(input), 0, CoordStep * lo, TimeStep * t, None))
    /\ UNCHANGED <<focus, s1_hops, mmVars, sqVars, offlineVars>>

StepFlushAgain ==
    /\ focus = "step"
    /\ calls < MaxReuseCalls
    /\ flush
    /\ UNCHANGED <<focus, s1_hops, mmVars, sqVars, offlineVars>>

NextReuse == StepProcessAgain \/ StepFlushAgain

SpecReuse == Init /\ [][NextReuse]_vars

SpecIngest == Init /\ [][NextIngest]_vars

NextMono == StepProcessNext \/ StepFlush

SpecMono == Init /\ [][NextMono]_vars

\* A matcher of any window size fed a stream
InitMatcher ==
    /\ focus = "mm"
    /\ StepInit(DemoConfig)
    /\ s1_hops = 0
    /\ \E w \in 1..MaxWindow : MatcherInit(w)
    /\ SquishInit(MinCapacity) /\ OfflineInit

NextMatcher == MatcherProcessPoint \/ MatcherFlush

SpecMatcher == InitMatcher /\ [][NextMatcher]_vars

\* A compressor of any valid capacity, and one call of compress
InitSquish ==
    /\ focus = "squish"
    /\ StepInit(DemoConfig)
    /\ s1_hops = 0
    /\ MatcherInit(1)
    /\ \E capacity \in MinCapacity..MaxCapacity : SquishInit(capacity)
    /\ OfflineInit

NextSquish == SquishCompress \/ SquishIngest \/ SquishReturn

SpecSquish == InitSquish /\ [][NextSquish]_vars

\* compress with the constructor's capacity on fixes whose latitude may be nan
SquishCompressAnyFloat ==
    /\ focus = "squish"
    /\ sq_pc = "idle"
    /\ \E n \in 0..MaxFloatPoints :
          \E lats \in [1..n -> (0..MaxSquishLat) \cup {NaN}], gaps \in [2..n -> 0..MaxSquishGap] :
             compress([k \in 1..n |-> Point(k - 1, lats[k], 0, TimeOf(gaps, k), None)], <<>>)
    /\ UNCHANGED <<focus, s1_hops, stepVars, mmVars, offlineVars>>

NextSquishFloat == SquishCompressAnyFloat \/ SquishIngest \/ SquishReturn

SpecSquishFloat == InitSquish /\ [][NextSquishFloat]_vars

\* (sqrt(2) / 4) as a fraction, for the default grid size of line 38
DefaultGridNum == 3535534
DefaultGridDen == 10000000

\* floor of (max_eps / g) ** 2 = 7.999999999999998 for the default grid size
DefaultThresholdSq == 7

\* the attributes of a STEPSegmenter that has not been constructed
NoConfig == StepConfig(None, None, None, None, None)

\* STEPSegmenter.__init__ lines 32-40, for max_eps >= 0; grid_size_meters is
\* <<>> for None.  The quotient of line 40 is floored: every squared grid
\* distance it is compared with is an integer.
STEPSegmenter_init(max_eps, min_duration_seconds, grid_size_meters) ==
    LET custom == grid_size_meters # <<>> /\ grid_size_meters[1] > 0
        g_num == IF custom THEN grid_size_meters[1] ELSE DefaultGridNum * max_eps
        g_den == IF custom THEN 1 ELSE DefaultGridDen
    IN  IF g_num = 0
        THEN /\ op' = "ZeroDivisionError"
             /\ UNCHANGED <<focus, cfg>>
        ELSE /\ cfg' = StepConfig(max_eps * max_eps, min_duration_seconds, g_num, g_den,
                                  IF custom
                                  THEN (max_eps * max_eps) \div (g_num * g_num)
                                  ELSE DefaultThresholdSq)
             /\ focus' = "step"
             /\ UNCHANGED op

\* the arguments the constructor is tried with: valid ones, a zero duration,
\* and a zero radius with a grid size and without
ConstructorArgs ==
    {[max_eps |-> DemoMaxEps, min_duration_seconds |-> DemoMinDuration, grid_size_meters |-> <<>>],
     [max_eps |-> DemoMaxEps, min_duration_seconds |-> 0, grid_size_meters |-> <<DemoGrid>>],
     [max_eps |-> 0, min_duration_seconds |-> DemoMinDuration, grid_size_meters |-> <<DemoGrid>>],
     [max_eps |-> 0, min_duration_seconds |-> DemoMinDuration, grid_size_meters |-> <<>>]}

\* STEPSegmenter(max_eps, min_duration_seconds, grid_size_meters)
StepConstruct ==
    /\ focus = "step_new"
    /\ op = "init"
    /\ \E args \in ConstructorArgs :
          STEPSegmenter_init(args.max_eps, args.min_duration_seconds, args.grid_size_meters)
    /\ UNCHANGED <<origin, cache, cache_offset, current_sp_start, current_sp_end,
                   ret, input, emitted, calls, sp_merges, assigned, fresh>>
    /\ UNCHANGED <<s1_hops, mmVars, sqVars, offlineVars>>

\* the STEPSegmenter from before its construction
InitStepNew ==
    /\ focus = "step_new"
    /\ StepInit(NoConfig)
    /\ s1_hops = 0
    /\ MatcherInit(1)
    /\ SquishInit(MinCapacity)
    /\ OfflineInit

NextStepNew == StepConstruct \/ StepProcessNext

SpecStepNew == InitStepNew /\ [][NextStepNew]_vars

InitSed ==
    /\ focus = "sed"
    /\ StepInit(DemoConfig)
    /\ s1_hops = 0
    /\ MatcherInit(1)
    /\ SquishInit(MinCapacity)
    /\ OfflineInit

NextSed == SedStats

InitSedError ==
    /\ focus = "sed_error"
    /\ StepInit(DemoConfig)
    /\ s1_hops = 0
    /\ MatcherInit(1)
    /\ SquishInit(MinCapacity)
    /\ OfflineInit

NextSedError == SedError

SpecSedError == InitSedError /\ [][NextSedError]_vars

SpecSed == InitSed /\ [][NextSed]_vars

\* STEPSegmenter(max_eps=10, min_duration_seconds=10): the default grid size
DefaultGridConfig ==
    StepConfig(DemoMaxEps * DemoMaxEps, DemoMinDuration, DefaultGridNum * DemoMaxEps,
               DefaultGridDen, DefaultThresholdSq)

\* process_point with a fix anywhere on a plane, TimeStep after its predecessor
StepProcessPlanar ==
    /\ focus = "step"
    /\ calls < MaxPlanarCalls
    /\ \E x \in 0..MaxPlanarX, y \in 0..MaxPlanarY :
          process_point(Point(Len(input), PlanarStep * y, PlanarStep * x,
                              LastTime + TimeStep, None))
    /\ UNCHANGED <<focus, s1_hops, mmVars, sqVars, offlineVars>>

\* a segmenter with the demo's grid or the default one, fed fixes of a plane
InitPlanar ==
    /\ focus = "step"
    /\ \E config \in {DemoConfig, DefaultGridConfig} : StepInit(config)
    /\ s1_hops = 0
    /\ MatcherInit(1)
    /\ SquishInit(MinCapacity)
    /\ OfflineInit

NextPlanar == StepProcessPlanar

SpecPlanar == InitPlanar /\ [][NextPlanar]_vars

\* the SquishCompressor from before its construction
InitSquishNew ==
    /\ focus = "squish"
    /\ StepInit(DemoConfig)
    /\ s1_hops = 0
    /\ MatcherInit(1)
    /\ sq_capacity = None
    /\ sq_asked = None
    /\ sq_override = <<>>
    /\ sq_points = <<>>
    /\ sq_pc = "new"
    /\ sq_i = 0
    /\ sq_nodes = <<>>
    /\ sq_pq = <<>>
    /\ sq_buffer = <<>>
    /\ sq_victims = <<>>
    /\ sq_stale = <<>>
    /\ sq_pushed = <<>>
    /\ sq_result = <<>>
    /\ OfflineInit

NextSquishNew == SquishConstruct \/ SquishCompress \/ SquishIngest \/ SquishReturn

SpecSquishNew == InitSquishNew /\ [][NextSquishNew]_vars

\* The STC oracle given one segment
InitStc ==
    /\ focus = "stc"
    /\ StepInit(DemoConfig)
    /\ s1_hops = 0
    /\ MatcherInit(1)
    /\ SquishInit(MinCapacity)
    /\ OfflineInit

NextStc == StcProcess

SpecStc == InitStc /\ [][NextStc]_vars

\* STCOracle.process(Move(points=output)) on what the first call returned
StcProcessOutput ==
    /\ focus = "stc"
    /\ stc_pc = "returned"
    /\ stc_points' = Move(stc_result).points
    /\ stc_result' = stc_process(Move(stc_result).points)
    /\ stc_pc' = "returned_again"
    /\ UNCHANGED <<focus, s1_hops, stepVars, mmVars, sqVars, scVars, sedVars>>

NextStcTwice == StcProcess \/ StcProcessOutput

SpecStcTwice == InitStc /\ [][NextStcTwice]_vars

\* A StopCompressor called once
InitStopCompressor ==
    /\ focus = "stop"
    /\ StepInit(DemoConfig)
    /\ s1_hops = 0
    /\ MatcherInit(1)
    /\ SquishInit(MinCapacity)
    /\ OfflineInit

NextStopCompressor == StopCompress

SpecStopCompressor == InitStopCompressor /\ [][NextStopCompressor]_vars

\* Where Stops are summarised: a segmenter fed a stream, or a StopCompressor called once
InitStops == Init \/ InitStopCompressor

NextStops == StepProcessPoint \/ StepFlush \/ StopCompress

SpecStops == InitStops /\ [][NextStops]_vars

\* Either a segmenter or a matcher, with calls of flush at any time
InitFlush == Init \/ InitMatcher

NextFlush == StepProcessPoint \/ StepFlush \/ MatcherProcessPoint \/ MatcherFlush

SpecFlush == InitFlush /\ [][NextFlush]_vars

----------------------------------------------------------------------------
(* Scenario S1 (tests/test_oracles.py, synthetic_trajectory): S1StopFixes fixes at   *)
(* (0, 0), then `hops` fixes interpolating linearly to (0.001, 0.001) degrees, then  *)
(* S1StopFixes fixes there, one minute apart, fed to STEPSegmenter(50.0, 120.0).     *)
(* Lengths are in centimetres: 0.0001 degree of arc is 1112 cm on the sphere of      *)
(* radius 6 371 000 m, g = 50 * sqrt(2) / 4 m = 1767.767 cm, and the float           *)
(* threshold_sq = (50 / g) ** 2 = 7.999999999999998 admits the integers up to 7.     *)

S1StopFixes == 10
S1Interval == 60
S1TargetCm == 11120
S1ToleranceCm == 1112
S1MaxEpsCm == 5000
S1MinDuration == 120
S1GridNum == 1767767
S1GridDen == 1000
S1ThresholdSq == 7
S1ClaimedHops == 10

\* The moving phases played: the one of the test and faster ones
S1Hops == {1, 2, 4, 5, S1ClaimedHops}

S1Config ==
    StepConfig(S1MaxEpsCm * S1MaxEpsCm, S1MinDuration, S1GridNum, S1GridDen, S1ThresholdSq)

S1Length(hops) == 2 * S1StopFixes + hops

\* The k-th fix (from 0) of the trajectory
S1Fix(hops, k) ==
    LET pos == IF k < S1StopFixes THEN 0
               ELSE IF k < S1StopFixes + hops
                    THEN (S1TargetCm * (k - S1StopFixes + 1)) \div hops
               ELSE S1TargetCm
        minute == IF k < S1StopFixes THEN k ELSE k + 1
    IN  Point(k, pos, pos, S1Interval * minute, None)

InitS1 == focus = "step" /\ StepInit(S1Config) /\ s1_hops \in S1Hops /\ MatcherInit(1) /\ SquishInit(MinCapacity) /\ OfflineInit

\* STEPSegmenter.process: the loop over the trajectory
S1ProcessPoint ==
    /\ s1_hops # 0
    /\ op # "flush"
    /\ Len(input) < S1Length(s1_hops)
    /\ process_point(S1Fix(s1_hops, Len(input)))
    /\ UNCHANGED <<focus, s1_hops, mmVars, sqVars, offlineVars>>

\* STEPSegmenter.process: the final flush
S1Flush ==
    /\ s1_hops # 0
    /\ op # "flush"
    /\ Len(input) = S1Length(s1_hops)
    /\ flush
    /\ UNCHANGED <<focus, s1_hops, mmVars, sqVars, offlineVars>>

NextS1 == S1ProcessPoint \/ S1Flush

SpecS1 == InitS1 /\ [][NextS1]_vars

----------------------------------------------------------------------------
(* Properties of the segmenter *)

RECURSIVE Flatten(_)
Flatten(segs) == IF segs = <<>> THEN <<>> ELSE Head(segs).points \o Flatten(Tail(segs))

EmittedPoints == Flatten(emitted)

Stops(segs) == {k \in 1..Len(segs) : segs[k].kind = "Stop"}

InputMonotone ==
    \A k \in 1..(Len(input) - 1) : input[k].timestamp <= input[k + 1].timestamp

TimeOrdered(points) ==
    \A k \in 1..(Len(points) - 1) : points[k].timestamp <= points[k + 1].timestamp

\* C1: the points of all emitted segments, concatenated in emission order, are
\* fixes of the input, each at most once and in input order.
C1_EmittedIsSubsequence ==
    LET ep == EmittedPoints
    IN  \A k \in 1..Len(ep) :
           /\ ep[k].n + 1 \in 1..Len(input)
           /\ input[ep[k].n + 1] = ep[k]
           /\ k < Len(ep) => ep[k].n < ep[k + 1].n

C1_Witness == op = "flush" /\ Len(emitted) >= 2 /\ Len(input) >= 3

\* C2: on a time-ordered input every emitted segment is time-ordered inside, and
\* each segment ends no later than the next one starts.
C2_SegmentsTimeOrdered ==
    InputMonotone =>
        /\ \A k \in 1..Len(emitted) : TimeOrdered(emitted[k].points)
        /\ \A k \in 1..(Len(emitted) - 1) :
              LET a == emitted[k].points
                  b == emitted[k + 1].points
              IN  a # <<>> /\ b # <<>> /\ a[Len(a)].timestamp <= b[1].timestamp

C2_Witness ==
    /\ InputMonotone
    /\ op = "case_1_1"
    /\ Len(ret) = 2
    /\ ret[1].points[1].timestamp < ret[2].points[1].timestamp

\* C3: no emitted segment is empty: an empty candidate Move is dropped and no
\* Stop is built from zero points (_create_stop never raises).
C3_SegmentsNonEmpty ==
    /\ op \notin {"ValueError", "flush_ValueError"}
    /\ \A k \in 1..Len(emitted) : emitted[k].points # <<>>

C3_Witness == op = "case_1_1" /\ Len(ret) = 1 /\ ret[1].kind = "Stop"

\* The fixes of the cache whose absolute index lies in lo..hi
CachedBetween(lo, hi) ==
    LET ks == {k \in 1..Len(cache) : lo <= cache_offset + k - 1 /\ cache_offset + k - 1 <= hi}
        first == CHOOSE k \in ks : \A j \in ks : k <= j
    IN  IF ks = {} THEN <<>> ELSE [j \in 1..Cardinality(ks) |-> cache[first + j - 1].p]

KindsAndPoints(segs) ==
    [k \in 1..Len(segs) |-> [kind |-> segs[k].kind, points |-> segs[k].points]]

\* What the claim says flush returns, read off the state before the call
FlushExpected ==
    LET last == cache_offset + Len(cache) - 1
    IN  IF current_sp_start # None
        THEN <<[kind |-> "Stop",
                points |-> CachedBetween(current_sp_start, current_sp_end)]>>
             \o (IF CachedBetween(current_sp_end + 1, last) # <<>>
                 THEN <<[kind |-> "Move", points |-> CachedBetween(current_sp_end + 1, last)]>>
                 ELSE <<>>)
        ELSE IF cache # <<>>
             THEN <<[kind |-> "Move", points |-> CachedBetween(cache_offset, last)]>>
             ELSE <<>>

\* C4: flush returns the stay-point in progress as a Stop, then the cached fixes after
\* it as a Move if there are any; without a stay-point, all cached fixes as one Move
\* (nothing for an empty cache); a single-fix stream flushes as one one-point Move;
\* afterwards the cache is empty and no stay-point is in progress.
C4_FlushEmitsRest ==
    [][/\ op' # "flush_ValueError"
       /\ op' = "flush" =>
             /\ KindsAndPoints(ret') = FlushExpected
             /\ cache' = <<>>
             /\ current_sp_start' = None
             /\ current_sp_end' = None
             /\ (calls = 1 /\ Len(input) = 1) => ret' = <<Move(input)>>]_vars

C4_Witness == op = "flush" /\ Len(ret) = 2 /\ Len(ret[1].points) >= 2

\* C6: on a time-ordered input every emitted Stop lasts at least min_duration_seconds.
C6_StopLastsMinDuration ==
    InputMonotone =>
        \A k \in Stops(emitted) :
            LET pts == emitted[k].points
            IN  pts[Len(pts)].timestamp - pts[1].timestamp >= cfg.min_duration_seconds

C6_Witness == InputMonotone /\ \E k \in Stops(emitted) : Len(emitted[k].points) >= 3

S1Done == s1_hops = S1ClaimedHops /\ op = "flush"

\* |centroid - target| < tolerance on both axes
CentroidNear(seg, target) ==
    /\ Abs(seg.centroid.lat_num - target * seg.centroid.den) < S1ToleranceCm * seg.centroid.den
    /\ Abs(seg.centroid.lon_num - target * seg.centroid.den) < S1ToleranceCm * seg.centroid.den

S1FasterHopsTwoStops ==
    (s1_hops \in {1, 2, 4, 5} /\ op = "flush") =>
        LET st == Stops(emitted)
        IN  /\ Cardinality(st) = 2
            /\ CentroidNear(emitted[CHOOSE k \in st : \A j \in st : k <= j], 0)
            /\ CentroidNear(emitted[CHOOSE k \in st : \A j \in st : k >= j], S1TargetCm)

\* C5: flush on an empty instance (fresh, or just flushed) returns the empty list and
\* leaves the instance as it was, for the segmenter and for the matcher.
C5_FlushOnEmptyIsNoOp ==
    [][/\ (op' = "flush" /\ calls' = calls + 1 /\ cache = <<>> /\ current_sp_start = None) =>
             /\ ret' = <<>>
             /\ UNCHANGED <<cfg, origin, cache, cache_offset, current_sp_start, current_sp_end>>
       /\ (mm_op' = "flush" /\ mm_calls' = mm_calls + 1 /\ mm_buffer = <<>>) =>
             /\ mm_ret' = <<>>
             /\ UNCHANGED <<mm_window, mm_buffer>>]_vars

\* a flush that found the instance empty although fixes had been ingested: a second flush
C5_Witness ==
    \/ focus = "step" /\ op = "flush" /\ ret = <<>> /\ input # <<>> /\ emitted # <<>>
    \/ focus = "mm" /\ mm_op = "flush" /\ mm_ret = <<>> /\ mm_in # <<>> /\ mm_out # <<>>

\* compress has come to an end, by returning or by raising
SquishEnded == focus = "squish" /\ sq_pc \in {"returned", "IndexError"}

\* C9: for every input and every capacity K in effect, the constructor's or any integer
\* given to the call, compress returns a list of at most max(K, 0) fixes, and the input
\* itself when it has no more than K fixes.
C9_CapacityBound ==
    SquishEnded =>
        /\ sq_pc = "returned"
        /\ Len(sq_result) <= Max(target_capacity, 0)
        /\ Len(sq_points) <= target_capacity => sq_result = sq_points

\* C10: for a non-empty input and a capacity K >= 3, the output of compress starts with
\* the first fix of the input and ends with its last fix.
C10_EndpointsPreserved ==
    (focus = "squish" /\ sq_pc = "returned" /\ sq_points # <<>> /\ target_capacity >= MinCapacity) =>
        /\ sq_result # <<>>
        /\ sq_result[1] = sq_points[1]
        /\ sq_result[Len(sq_result)] = sq_points[Len(sq_points)]

\* compress returned after evicting two fixes, the second of them next to an endpoint
C10_Witness ==
    /\ focus = "squish" /\ sq_pc = "returned" /\ target_capacity >= MinCapacity
    /\ Len(sq_victims) = 2
    /\ sq_victims[2] \in {1, Len(sq_points) - 2}
    /\ sq_result[1] = sq_points[1]
    /\ sq_result[Len(sq_result)] = sq_points[Len(sq_points)]

\* C11: whatever compress returns is a subsequence of its input: each returned fix is
\* the input fix of its index, and the indices strictly increase.
C11_OutputIsSubsequence ==
    (focus = "squish" /\ sq_pc = "returned") =>
        /\ \A k \in 1..Len(sq_result) :
              /\ sq_result[k].n + 1 \in 1..Len(sq_points)
              /\ sq_result[k] = sq_points[sq_result[k].n + 1]
        /\ \A k \in 1..(Len(sq_result) - 1) : sq_result[k].n < sq_result[k + 1].n

\* compress returned three of five fixes after evicting two
C11_Witness ==
    /\ focus = "squish" /\ sq_pc = "returned"
    /\ Len(sq_points) = 5 /\ Len(sq_result) = 3 /\ Len(sq_victims) = 2
    /\ sq_result[2].n \in {1, 2, 3}

\* C12: with N > K >= 3 fixes, compress returns exactly K of them, after one eviction
\* for each fix ingested once the buffer is full.
C12_ExactlyKRemain ==
    (SquishEnded /\ target_capacity >= MinCapacity /\ Len(sq_points) > target_capacity) =>
        /\ sq_pc = "returned"
        /\ Len(sq_result) = target_capacity
        /\ Len(sq_victims) = Len(sq_points) - target_capacity

\* four fixes were kept of five, by one eviction
C12_Witness ==
    /\ focus = "squish" /\ sq_pc = "returned"
    /\ target_capacity = 4 /\ Len(sq_points) = 5
    /\ Len(sq_result) = 4 /\ Len(sq_victims) = 1

\* the matcher has only been given fixes so far, the last call included
OnlyProcessPointSoFar == focus = "mm" /\ mm_op = "process_point" /\ mm_calls = Len(mm_in)

\* an output fix is the input fix but for lat, lon and road_id
SameFix(out, in) == out.n = in.n /\ out.timestamp = in.timestamp /\ out.obj_id = in.obj_id

\* C13: on a fresh matcher of window W >= 1 the n-th process_point returns nothing
\* while n < W, and from n = W on exactly one fix, the (n - W + 1)-th ingested.
C13_DelayAndLatency ==
    OnlyProcessPointSoFar =>
        LET n == Len(mm_in)
        IN  IF n < mm_window
            THEN mm_ret = <<>> /\ mm_out = <<>>
            ELSE Len(mm_ret) = 1 /\ SameFix(mm_ret[1], mm_in[n - mm_window + 1])

\* the fourth fix given to a matcher of window 3 brought out the second one
C13_Witness ==
    /\ OnlyProcessPointSoFar
    /\ mm_window = 3 /\ Len(mm_in) = 4
    /\ Len(mm_ret) = 1 /\ mm_ret[1].n = 1 /\ Len(mm_out) = 2

\* C14: the fixes returned by process_point and then by flush are the input fixes, one
\* for one and in input order (lat, lon and road_id aside); what is not yet returned is
\* the buffer, in order; flush returns all of it and leaves the buffer empty.
C14_ConservationAndOrder ==
    focus = "mm" =>
        /\ Len(mm_out) + Len(mm_buffer) = Len(mm_in)
        /\ \A k \in 1..Len(mm_out) : SameFix(mm_out[k], mm_in[k])
        /\ \A j \in 1..Len(mm_buffer) : mm_buffer[j] = mm_in[Len(mm_out) + j]
        /\ mm_op = "flush" => (mm_buffer = <<>> /\ Len(mm_out) = Len(mm_in))

\* four fixes through a matcher of window 3: two came out of process_point, two of flush
C14_Witness ==
    /\ focus = "mm" /\ mm_op = "flush" /\ mm_window = 3
    /\ Len(mm_in) = 4 /\ Len(mm_ret) = 2 /\ Len(mm_out) = 4
    /\ mm_out[1].road_id = OsmId /\ mm_out[4].lat = RoadLat

\* C15: a fix whose window gave no states comes out as it went in, road_id None and
\* coordinates unchanged, by a normal return, and is no longer in the buffer.
C15_FailurePassesThrough ==
    (focus = "mm" /\ mm_op \in {"process_point", "flush"}) =>
        \A k \in 1..Len(mm_ret) :
            ~mm_outcomes[k].matched =>
                LET in == mm_in[Len(mm_out) - Len(mm_ret) + k]
                IN  /\ mm_ret[k] = in
                    /\ mm_ret[k].road_id = None
                    /\ \A j \in 1..Len(mm_buffer) : mm_buffer[j].n # in.n

\* process_point returned a fix of a full window of 2 for which matching had failed
C15_Witness ==
    /\ focus = "mm" /\ mm_op = "process_point" /\ mm_window = 2
    /\ Len(mm_ret) = 1 /\ ~mm_outcomes[1].matched
    /\ mm_ret[1].road_id = None /\ mm_ret[1].lat = RawLat
    /\ Len(mm_buffer) = 1

\* C16: the buffer never holds more than W fixes; from the W-th process_point on it
\* holds W when matching runs and the call releases one fix, the oldest.
C16_BufferBound ==
    focus = "mm" =>
        /\ Len(mm_buffer) <= mm_window
        /\ mm_peak <= mm_window
        /\ (OnlyProcessPointSoFar /\ Len(mm_in) >= mm_window) =>
              /\ mm_peak = mm_window
              /\ Len(mm_ret) = 1
              /\ mm_ret[1].n = mm_in[Len(mm_in) - mm_window + 1].n
              /\ mm_buffer = SubSeq(mm_in, Len(mm_in) - mm_window + 2, Len(mm_in))

\* the fifth fix in a row given to a matcher of window 3
C16_Witness ==
    /\ OnlyProcessPointSoFar
    /\ mm_window = 3 /\ Len(mm_in) = 5
    /\ mm_peak = 3 /\ Len(mm_buffer) = 2 /\ mm_ret[1].n = 2

\* the indices (0-based) of the fixes STC is said to keep of an input of two or more:
\* the first, and every interior one on another road than its predecessor
StcKept(points) ==
    {0} \cup {i \in 1..(Len(points) - 2) : points[i + 1].road_id # points[i].road_id}

\* the fixes of the given indices, in index order
RECURSIVE PickFixes(_, _, _)
PickFixes(points, kept, i) ==
    IF i = Len(points) THEN <<>>
    ELSE (IF i \in kept THEN <<points[i + 1]>> ELSE <<>>) \o PickFixes(points, kept, i + 1)

\* C17: for two or more fixes STCOracle.process returns the first fix, every interior
\* fix whose road_id differs from its predecessor's, and the last fix unless it equals
\* the fix emitted last; zero or one fix come back unchanged.
C17_StcComposition ==
    (focus = "stc" /\ stc_pc = "returned") =>
        IF Len(stc_points) <= 1 THEN stc_result = stc_points
        ELSE LET body == PickFixes(stc_points, StcKept(stc_points), 0)
                 last == stc_points[Len(stc_points)]
             IN  stc_result = IF PointEq(body[Len(body)], last) THEN body
                              ELSE Append(body, last)

\* roads [A, A, B, B, C] gave the fixes 0, 2, 4 and roads [A, A, B, B] the fixes 0, 2, 3
C17_Witness ==
    /\ focus = "stc" /\ stc_pc = "returned"
    /\ \/ /\ [k \in 1..Len(stc_points) |-> stc_points[k].road_id] = <<1, 1, 2, 2, 3>>
          /\ [k \in 1..Len(stc_result) |-> stc_result[k].n] = <<0, 2, 4>>
       \/ /\ [k \in 1..Len(stc_points) |-> stc_points[k].road_id] = <<1, 1, 2, 2>>
          /\ [k \in 1..Len(stc_result) |-> stc_result[k].n] = <<0, 2, 3>>

\* C18: consecutive fixes of an STC output are on different roads, the last two
\* possibly excepted, and the output starts with the first input fix.
C18_StcDistinctRoads ==
    (focus = "stc" /\ stc_pc = "returned" /\ stc_points # <<>>) =>
        /\ stc_result # <<>>
        /\ stc_result[1] = stc_points[1]
        /\ \A k \in 1..(Len(stc_result) - 2) : stc_result[k].road_id # stc_result[k + 1].road_id

\* an output of four fixes whose last two are on the same road
C18_Witness ==
    /\ focus = "stc" /\ stc_pc = "returned"
    /\ Len(stc_result) = 4 /\ Len(stc_points) = 5
    /\ stc_result[3].road_id = stc_result[4].road_id
    /\ stc_result[1].road_id # stc_result[2].road_id

\* the sum of a field over the first k fixes
RECURSIVE SumTo(_, _, _)
SumTo(points, field, k) == IF k = 0 THEN 0 ELSE SumTo(points, field, k - 1) + points[k][field]

\* the centroid is the mean of the fixes and carries the first one's timestamp and obj_id
IsMeanOf(centroid, points) ==
    /\ centroid.den > 0
    /\ centroid.lat_num * Len(points) = SumTo(points, "lat", Len(points)) * centroid.den
    /\ centroid.lon_num * Len(points) = SumTo(points, "lon", Len(points)) * centroid.den
    /\ centroid.timestamp = points[1].timestamp
    /\ centroid.obj_id = points[1].obj_id

\* C19: the CompressedStop of a non-empty list has the mean lat and lon of the fixes,
\* the first fix's obj_id, start_time of the first and end_time of the last fix; every
\* Stop of the segmenter carries such a centroid too.
C19_StopSummary ==
    /\ (focus = "stop" /\ sc_pc # "idle" /\ sc_points # <<>>) =>
          /\ sc_pc = "returned" /\ Len(sc_result) = 1
          /\ IsMeanOf(sc_result[1].centroid, sc_points)
          /\ sc_result[1].start_time = sc_points[1].timestamp
          /\ sc_result[1].end_time = sc_points[Len(sc_points)].timestamp
          /\ TimeOrdered(sc_points) => sc_result[1].start_time <= sc_result[1].end_time
    /\ \A k \in 1..Len(emitted) :
          emitted[k].kind = "Stop" =>
              emitted[k].points # <<>> /\ IsMeanOf(emitted[k].centroid, emitted[k].points)

\* three fixes of two objects at different times, whose mean latitude is no integer
C19_Witness ==
    /\ focus = "stop" /\ sc_pc = "returned" /\ Len(sc_points) = 3
    /\ sc_points[1].obj_id # sc_points[3].obj_id
    /\ sc_points[1].timestamp < sc_points[3].timestamp
    /\ sc_result[1].centroid.lat_num % 3 # 0

\* C20: StopCompressor.compress of the empty list raises ValueError and returns nothing.
C20_EmptyStopRaises ==
    (focus = "stop" /\ sc_pc # "idle" /\ sc_points = <<>>) =>
        sc_pc = "ValueError" /\ sc_result = <<>>

\* compress was called with the empty list
C20_Witness == focus = "stop" /\ sc_pc = "ValueError" /\ sc_points = <<>>

\* C21: constructing a SquishCompressor with capacity < 3 raises ValueError
\* at construction, so every instance the constructor hands out has
\* capacity >= 3 (and it is the capacity that was asked for).
C21_SmallCapacityRejected ==
    (focus = "squish" /\ sq_pc # "new") =>
        /\ (sq_asked < 3) <=> (sq_pc = "ValueError")
        /\ (sq_asked < 3) => sq_capacity = None
        /\ (sq_asked >= 3) => sq_capacity = sq_asked

C21_Witness == focus = "squish" /\ sq_pc = "ValueError" /\ sq_asked = 2 /\ sq_capacity = None

\* C22: a STEPSegmenter with non-positive max_eps or non-positive
\* min_duration_seconds is rejected at construction, so no such segmenter
\* ever processes a fix.
C22_NonPositiveConfigRejected ==
    (focus = "step" /\ calls > 0) =>
        (cfg.max_eps_sq > 0 /\ cfg.min_duration_seconds > 0)

\* C23: SED idempotence: for every non-empty list of fixes with non-decreasing
\* timestamps, calculate_sed_stats(points, points) reports average_sed = 0,
\* max_sed = 0 and rmse = 0.
C23_SedIdempotent ==
    (focus = "sed" /\ sed_pc = "returned" /\ sed_original # <<>>
        /\ sed_compressed = sed_original) =>
        /\ sed_stats.average_sed.num = 0
        /\ sed_stats.max_sed.num = 0
        /\ sed_stats.mse.num = 0

----------------------------------------------------------------------------
(* The cases of process_point, told from the state before the call and the  *)
(* new fix p_c.  Absolute indices are those of the cache with p_c appended. *)

IsProcessPoint == focus = "step" /\ Len(input') = Len(input) + 1

\* the fix with absolute index k, p_c being the fix with index c
AbsFix(p_c, k) ==
    IF k = cache_offset + Len(cache) THEN p_c ELSE cache[k - cache_offset + 1].p

FixesBetween(p_c, a, b) == [j \in 1..(b - a + 1) |-> AbsFix(p_c, a + j - 1)]

\* I_s of a plain backward scan: the least index from which every cached fix
\* is within D of p_c
PlainStart(p_c) ==
    LET c == cache_offset + Len(cache)
    IN  CHOOSE i \in cache_offset..c :
           /\ \A j \in i..(c - 1) : local_distance_sq(p_c, AbsFix(p_c, j)) <= cfg.max_eps_sq
           /\ \A h \in cache_offset..(i - 1) :
                  \E j \in h..(c - 1) : local_distance_sq(p_c, AbsFix(p_c, j)) > cfg.max_eps_sq

\* p_c closes a stay-point [PlainStart(p_c), c]
StayPointDetected(p_c) ==
    p_c.timestamp - AbsFix(p_c, PlainStart(p_c)).timestamp >= cfg.min_duration_seconds

\* C24: Case 1.1: a stay-point [I_s, c] detected while a stay-point is in
\* progress and I_s > current_sp_end makes process_point return the Stop of
\* fixes current_sp_start..current_sp_end, then the Move of fixes
\* current_sp_end + 1..I_s - 1 if there are any, set the stay-point to
\* [I_s, c] and prune the cache so that cache[0] is the fix of index I_s.
C24_Case11 ==
    [][IsProcessPoint =>
          LET p_c == input'[Len(input')]
              c == cache_offset + Len(cache)
              Is == PlainStart(p_c)
          IN  (StayPointDetected(p_c) /\ current_sp_start # None /\ Is > current_sp_end) =>
                 /\ Len(ret') = IF Is - 1 >= current_sp_end + 1 THEN 2 ELSE 1
                 /\ ret'[1].kind = "Stop"
                 /\ ret'[1].points = FixesBetween(p_c, current_sp_start, current_sp_end)
                 /\ Len(ret') = 2 =>
                        ret'[2] = Move(FixesBetween(p_c, current_sp_end + 1, Is - 1))
                 /\ current_sp_start' = Is
                 /\ current_sp_end' = c
                 /\ cache_offset' = Is
                 /\ cache' # <<>>
                 /\ cache'[1].p = AbsFix(p_c, Is)]_vars

C24_Witness ==
    /\ focus = "step" /\ op = "case_1_1"
    /\ Len(ret) = 2 /\ ret[2].kind = "Move"
    /\ current_sp_start = cache_offset
    /\ cache[1].p.n = cache_offset

\* C25: Case 1.2: a stay-point [I_s, c] detected with I_s <= current_sp_end
\* makes process_point emit nothing and set current_sp_end = c; current_sp_start
\* and cache_offset stay, nothing is pruned, and the fixes after the old
\* current_sp_end up to c now belong to the stay-point in progress.
C25_Case12 ==
    [][IsProcessPoint =>
          LET p_c == input'[Len(input')]
              c == cache_offset + Len(cache)
              Is == PlainStart(p_c)
          IN  (StayPointDetected(p_c) /\ current_sp_start # None /\ Is <= current_sp_end) =>
                 /\ ret' = <<>>
                 /\ current_sp_end' = c
                 /\ current_sp_start' = current_sp_start
                 /\ cache_offset' = cache_offset
                 /\ [k \in 1..Len(cache') |-> cache'[k].p]
                        = FixesBetween(p_c, cache_offset, c)
                 /\ [k \in (current_sp_start' - cache_offset' + 1)
                              ..(current_sp_end' - cache_offset' + 1) |-> cache'[k].p]
                        = [k \in (current_sp_start - cache_offset + 1)..(c - cache_offset + 1) |->
                              AbsFix(p_c, cache_offset + k - 1)]]_vars

C25_Witness ==
    /\ focus = "step" /\ op = "case_1_2"
    /\ ret = <<>>
    /\ current_sp_end = cache_offset + Len(cache) - 1
    /\ current_sp_end - current_sp_start >= 3

\* C26: Case 1.3: a stay-point [I_s, c] detected while none is in progress
\* makes process_point emit one Move of all cached fixes of index < I_s if
\* there are any and nothing otherwise, never a Stop, set the stay-point to
\* [I_s, c] and prune the cache up to I_s.
C26_Case13 ==
    [][IsProcessPoint =>
          LET p_c == input'[Len(input')]
              c == cache_offset + Len(cache)
              Is == PlainStart(p_c)
          IN  (StayPointDetected(p_c) /\ current_sp_start = None) =>
                 /\ ret' = IF Is > cache_offset
                           THEN <<Move(FixesBetween(p_c, cache_offset, Is - 1))>>
                           ELSE <<>>
                 /\ Stops(ret') = {}
                 /\ current_sp_start' = Is
                 /\ current_sp_end' = c
                 /\ cache_offset' = Is
                 /\ [k \in 1..Len(cache') |-> cache'[k].p] = FixesBetween(p_c, Is, c)]_vars

C26_Witness ==
    /\ focus = "step" /\ op = "case_1_3"
    /\ Len(ret) = 1 /\ ret[1].kind = "Move" /\ Len(ret[1].points) >= 2
    /\ current_sp_start = cache_offset
    /\ current_sp_end > current_sp_start

\* C27: Case 2.1: when the new fix p_c closes no stay-point, a stay-point is in
\* progress and p_c is farther than D from the fix at current_sp_end,
\* process_point emits exactly the Stop of fixes current_sp_start..current_sp_end,
\* prunes the cache up to current_sp_end + 1 and clears the stay-point; p_c and
\* the fixes after current_sp_end stay cached.  Otherwise (Cases 2.2 and 2.3)
\* nothing is emitted and only the cache grows, by p_c.
C27_Case2 ==
    [][IsProcessPoint =>
          LET p_c == input'[Len(input')]
              c == cache_offset + Len(cache)
              far == local_distance_sq(p_c, AbsFix(p_c, current_sp_end)) > cfg.max_eps_sq
          IN  ~StayPointDetected(p_c) =>
                 IF current_sp_start # None /\ far
                 THEN /\ Len(ret') = 1
                      /\ ret'[1].kind = "Stop"
                      /\ ret'[1].points = FixesBetween(p_c, current_sp_start, current_sp_end)
                      /\ cache_offset' = current_sp_end + 1
                      /\ [k \in 1..Len(cache') |-> cache'[k].p]
                             = FixesBetween(p_c, current_sp_end + 1, c)
                      /\ current_sp_start' = None
                      /\ current_sp_end' = None
                 ELSE /\ ret' = <<>>
                      /\ [k \in 1..Len(cache') |-> cache'[k].p]
                             = FixesBetween(p_c, cache_offset, c)
                      /\ UNCHANGED <<cache_offset, current_sp_start, current_sp_end>>]_vars

C27_Witness ==
    /\ focus = "step" /\ op = "case_2_1"
    /\ Len(ret) = 1 /\ ret[1].kind = "Stop"
    /\ current_sp_start = None
    /\ Len(cache) >= 2

\* the scan of Alg 1 as process_point runs it, clamped to cache_offset
IndexedStart(new) ==
    LET cch == Append(cache, new)
        walked == StayPointSearch(cfg, cch, cache_offset, new, cache_offset + Len(cache) - 1)
    IN  IF walked < cache_offset THEN cache_offset ELSE walked

\* C28: on a plane, a predecessor the grid classifies Confirmed is within D
\* of the new fix and one it classifies Pruned is farther than D, so the
\* indexed backward scan stops at the index I_s at which a plain backward
\* scan with the exact test dist <= D on every predecessor stops.
C28_GridSound ==
    [][IsProcessPoint =>
          LET new == cache'[Len(cache')]
          IN  /\ new.p = input'[Len(input')]
              /\ \A k \in 1..Len(cache) :
                     LET delta_x == Abs(cache[k].gx - new.gx)
                         delta_y == Abs(cache[k].gy - new.gy)
                         dist_sq == local_distance_sq(new.p, cache[k].p)
                     IN  /\ Confirmed(cfg, delta_x, delta_y) => dist_sq <= cfg.max_eps_sq
                         /\ Pruned(cfg, delta_x, delta_y) => dist_sq > cfg.max_eps_sq
              /\ IndexedStart(new) = PlainStart(new.p)]_vars

\* a scan that met a Confirmed and a Pruned predecessor
C28_Witness ==
    /\ focus = "step" /\ Len(cache) >= 2 /\ Len(input) >= 3
    /\ LET new == cache[Len(cache)]
           prev == cache[Len(cache) - 1]
       IN  /\ Confirmed(cfg, Abs(prev.gx - new.gx), Abs(prev.gy - new.gy))
           /\ prev.p.lon # new.p.lon
           /\ cache_offset > 0
           /\ Pruned(cfg, Abs(GridIndex(cfg, input[cache_offset].lon - origin.lon) - new.gx),
                          Abs(GridIndex(cfg, input[cache_offset].lat - origin.lat) - new.gy))

----------------------------------------------------------------------------
(* Properties of the SQUISH victim search *)

IsEviction == focus = "squish" /\ Len(sq_victims') = Len(sq_victims) + 1

\* a node that is linked on both sides and not removed
Interior(nodes, k) ==
    ~nodes[k + 1].removed /\ nodes[k + 1].prev # None /\ nodes[k + 1].next # None

\* the priority of node k against the neighbours it has in nodes
FreshPriority(nodes, k) ==
    _compute_priority(sq_points[nodes[k + 1].prev + 1], sq_points[k + 1],
                      sq_points[nodes[k + 1].next + 1])

\* the heap holds an entry of this node with this priority
HasEntry(pq, k, priority) ==
    \E e \in 1..Len(pq) : pq[e].index = k /\ PriorityEq(pq[e].priority, priority)

\* C30: at every eviction the victim is a live interior node whose priority
\* against its current neighbours is minimal among the live interior nodes;
\* every heap entry discarded on the way is stale (its node is removed or has
\* another priority by now); after the eviction the victim's former neighbours
\* are linked to each other and each of them that is interior carries, in the
\* node and in the heap, the priority computed against its new neighbours.
C30_LazyDeletion ==
    [][IsEviction =>
          LET linked == LinkNewNode(sq_points, [nodes |-> sq_nodes, pq |-> sq_pq],
                                    sq_buffer, sq_i).nodes
              v == sq_victims'[Len(sq_victims')]
              a == linked[v + 1].prev
              b == linked[v + 1].next
          IN  /\ Interior(linked, v)
              /\ PriorityEq(linked[v + 1].priority, FreshPriority(linked, v))
              /\ \A k \in 0..(Len(linked) - 1) :
                     Interior(linked, k) =>
                        ~PriorityLess(FreshPriority(linked, k), FreshPriority(linked, v))
              /\ \A e \in (Len(sq_stale) + 1)..Len(sq_stale') :
                     \/ linked[sq_stale'[e].index + 1].removed
                     \/ ~PriorityEq(linked[sq_stale'[e].index + 1].priority,
                                    sq_stale'[e].priority)
              /\ sq_nodes'[v + 1].removed
              /\ sq_nodes'[a + 1].next = b
              /\ sq_nodes'[b + 1].prev = a
              /\ \A k \in {a, b} :
                     Interior(sq_nodes', k) =>
                        /\ PriorityEq(sq_nodes'[k + 1].priority, FreshPriority(sq_nodes', k))
                        /\ HasEntry(sq_pq', k, FreshPriority(sq_nodes', k))]_vars

\* a third eviction, after the search has discarded a stale entry of a removed
\* node and a stale entry of a live node
C30_Witness ==
    /\ focus = "squish" /\ sq_pc = "loop"
    /\ Len(sq_victims) = 3
    /\ \E e \in 1..Len(sq_stale) : sq_stale[e].index \in {sq_victims[1], sq_victims[2]}
    /\ \E e \in 1..Len(sq_stale) :
          /\ sq_stale[e].index \notin {sq_victims[k] : k \in 1..3}
          /\ ~sq_nodes[sq_stale[e].index + 1].removed

\* the indices of the linked list, from node curr along next
RECURSIVE NextChain(_, _)
NextChain(nodes, curr) ==
    IF curr = None THEN <<>> ELSE <<curr>> \o NextChain(nodes, nodes[curr + 1].next)

\* C31: after each incoming fix i has been handled the live linked list starts
\* with fix 0, ends with fix i, is in increasing index order and has exactly
\* min(i + 1, K) nodes, which are the nodes not removed among 0..i.
C31_EndpointsNeverEvicted ==
    (focus = "squish" /\ sq_pc = "loop" /\ sq_i >= 1) =>
        LET i == sq_i - 1
            chain == NextChain(sq_nodes, 0)
        IN  /\ chain[1] = 0
            /\ chain[Len(chain)] = i
            /\ \A k \in 1..(Len(chain) - 1) : chain[k] < chain[k + 1]
            /\ Len(chain) = Min(i + 1, target_capacity)
            /\ {chain[k] : k \in 1..Len(chain)} = {j \in 0..i : ~sq_nodes[j + 1].removed}
            /\ ~sq_nodes[1].removed /\ ~sq_nodes[i + 1].removed

\* the sixth fix has been handled with K = 3, by the third eviction
C31_Witness ==
    /\ focus = "squish" /\ sq_pc = "loop" /\ sq_i = 6 /\ target_capacity = 3
    /\ Len(sq_victims) = 3
    /\ NextChain(sq_nodes, 0)[1] = 0
    /\ NextChain(sq_nodes, 0)[3] = 5

\* the place in the push order of the earliest entry pushed for node k with the
\* priority it has in nodes
FirstPush(pushed, nodes, k) ==
    CHOOSE e \in 1..Len(pushed) :
       /\ pushed[e].index = k /\ PriorityEq(pushed[e].priority, nodes[k + 1].priority)
       /\ \A d \in 1..(e - 1) :
              ~(pushed[d].index = k /\ PriorityEq(pushed[d].priority, nodes[k + 1].priority))

\* C32: when several live interior nodes share the minimum priority, the one
\* evicted is the one whose entry of that priority was pushed earliest.
C32_TiesByInsertionOrder ==
    [][IsEviction =>
          LET linked == LinkNewNode(sq_points, [nodes |-> sq_nodes, pq |-> sq_pq],
                                    sq_buffer, sq_i).nodes
              v == sq_victims'[Len(sq_victims')]
          IN  \A k \in 0..(Len(linked) - 1) :
                 (Interior(linked, k) /\ PriorityEq(linked[k + 1].priority, linked[v + 1].priority))
                    => FirstPush(sq_pushed', linked, v) <= FirstPush(sq_pushed', linked, k)]_vars

\* the square of the planar distance between two fixes, as a priority
PlanarDistanceSq(p, a) ==
    [num |-> (p.lat - a.lat) * (p.lat - a.lat) + (p.lon - a.lon) * (p.lon - a.lon), den |-> 1]

\* C33: a live interior node whose two neighbours carry the same timestamp has
\* as its priority the planar distance from its fix to the previous neighbour's fix.
C33_DegeneratePriorityIsDistance ==
    (focus = "squish" /\ sq_pc = "loop") =>
        \A k \in 0..(Len(sq_nodes) - 1) :
           (/\ Interior(sq_nodes, k)
            /\ sq_points[sq_nodes[k + 1].prev + 1].timestamp
                  = sq_points[sq_nodes[k + 1].next + 1].timestamp)
              => PriorityEq(sq_nodes[k + 1].priority,
                            PlanarDistanceSq(sq_points[k + 1], sq_points[sq_nodes[k + 1].prev + 1]))

\* a value MetresPerDegree * sqrt(q) is the number m
IsMetres(q, m) ==
    LET b == m * m * q.den
    IN  /\ b % MetresPerDegree = 0
        /\ (b \div MetresPerDegree) % MetresPerDegree = 0
        /\ q.num = (b \div MetresPerDegree) \div MetresPerDegree

\* the fix is at this latitude, longitude and time
At(p, lat, lon, t) == p.lat = lat /\ p.lon = lon /\ p.timestamp = t

\* the call of scenario S6: test point (lat 1, lon 1, t = 1) against the
\* anchors (0, 0, t = 0) and (2, 0, t = 2)
ScenarioS6 ==
    /\ focus = "sed_error" /\ sed_pc = "returned"
    /\ At(sed_original[1], 1, 1, 1)
    /\ At(sed_compressed[1], 0, 0, 0)
    /\ At(sed_compressed[2], 2, 0, 2)

\* C34: in scenario S6 calculate_sed_error returns 1.0.
C34_ScenarioS6IsOne == ScenarioS6 => IsMetres(sed_stats.error_sq, 1)

\* the fixes held by the cache, oldest first
CachedPoints == [k \in 1..Len(cache) |-> cache[k].p]

\* only process_point has been called / process_point calls and then one flush
NeverFlushed == focus = "step" /\ calls = Len(input) /\ calls >= 1

FlushedOnceAtEnd == focus = "step" /\ op = "flush" /\ calls = Len(input) + 1

\* C35: while the segmenter has not been flushed, the points emitted so far
\* followed by the cached points are exactly the fixes ingested so far; after
\* the flush that ends process(trajectory) the emitted points are the input and
\* no segment is empty.
C35_NoFixLostOrDuplicated ==
    /\ NeverFlushed => EmittedPoints \o CachedPoints = input
    /\ FlushedOnceAtEnd =>
          /\ EmittedPoints = input
          /\ \A k \in 1..Len(emitted) : emitted[k].points # <<>>

C35_Witness ==
    /\ FlushedOnceAtEnd
    /\ Len(input) = 4
    /\ Len(emitted) = 3
    /\ emitted[1].kind = "Move" /\ emitted[2].kind = "Stop" /\ emitted[3].kind = "Move"

\* process_point has just returned
AfterProcessPoint ==
    focus = "step" /\ op \in {"case_1_1", "case_1_2", "case_1_3", "case_2_1", "case_2_2"}

\* C36: the two stay-point indices are set together; when set,
\* cache_offset = current_sp_start <= current_sp_end <= cache_offset + len(cache) - 1;
\* after process_point the cache ends with the fix just processed; and neither
\* process_point nor flush ever raises 'Empty points for Stop'.
C36_IndexSafety ==
    focus = "step" =>
        /\ (current_sp_start = None) <=> (current_sp_end = None)
        /\ current_sp_start # None =>
              /\ cache_offset = current_sp_start
              /\ current_sp_start <= current_sp_end
              /\ current_sp_end <= cache_offset + Len(cache) - 1
        /\ AfterProcessPoint =>
              /\ cache # <<>>
              /\ cache[Len(cache)].p = input[Len(input)]
        /\ op \notin {"ValueError", "flush_ValueError"}

C36_Witness ==
    /\ AfterProcessPoint
    /\ calls > Len(input)
    /\ current_sp_start # None
    /\ current_sp_start >= 1
    /\ current_sp_end > current_sp_start
    /\ current_sp_end < cache_offset + Len(cache) - 1

\* C37: in a run of process_point calls from the fresh state, ended or not by
\* one flush, no two consecutive emitted segments are both Moves.
C37_NoConsecutiveMoves ==
    (NeverFlushed \/ FlushedOnceAtEnd) =>
        \A k \in 1..(Len(emitted) - 1) :
           ~(emitted[k].kind = "Move" /\ emitted[k + 1].kind = "Move")

C37_Witness ==
    /\ FlushedOnceAtEnd
    /\ Len(ret) = 2
    /\ \E k \in 1..(Len(emitted) - 2) :
          emitted[k].kind = "Move" /\ emitted[k + 1].kind = "Stop" /\ emitted[k + 2].kind = "Move"

\* the cache of the instance with its stay-point indices counted from cache[0]
Relative(offset, index) == IF index = None THEN None ELSE index - offset

\* C38: an instance that has been flushed behaves from then on like one
\* constructed anew with the same configuration: every later call returns the
\* same segments, and the two hold the same cache, grid cells and stay-point
\* (counted from the start of the cache) although cache_offset was not reset.
C38_FlushedIsFresh ==
    focus = "step" =>
        /\ ret = fresh.ret
        /\ (op \in {"ValueError", "flush_ValueError"}) <=> fresh.raised
        /\ cache = fresh.cache
        /\ Relative(cache_offset, current_sp_start)
              = Relative(fresh.cache_offset, fresh.current_sp_start)
        /\ Relative(cache_offset, current_sp_end)
              = Relative(fresh.cache_offset, fresh.current_sp_end)

C38_Witness ==
    /\ AfterProcessPoint
    /\ calls > Len(input)
    /\ cache_offset > fresh.cache_offset
    /\ fresh.cache_offset > 0
    /\ Len(ret) >= 1

\* C39: with a capacity of at least 3, compress never raises: inside the loop
\* every live interior node has a heap entry that carries its current priority,
\* and a full buffer has such a node, so the victim search never empties the heap.
C39_VictimAlwaysFound ==
    (focus = "squish" /\ target_capacity >= MinCapacity) =>
        /\ sq_pc # "IndexError"
        /\ sq_pc = "loop" =>
              /\ \A k \in 0..(Len(sq_nodes) - 1) :
                     Interior(sq_nodes, k) => HasEntry(sq_pq, k, sq_nodes[k + 1].priority)
              /\ Len(sq_buffer) = target_capacity =>
                     \E k \in 0..(Len(sq_nodes) - 1) : Interior(sq_nodes, k)

\* C40: STCOracle.process applied to a Move built from its own output returns
\* that output again.
C40_StcIdempotent ==
    [][(focus = "stc" /\ stc_pc = "returned" /\ stc_pc' = "returned_again")
          => stc_result' = stc_result]_vars

\* the second call was given three fixes that the first call had picked out of five
C40_Witness ==
    /\ focus = "stc" /\ stc_pc = "returned_again"
    /\ Len(stc_points) = 3
    /\ [k \in 1..3 |-> stc_points[k].n] = <<0, 2, 4>>
    /\ Len(stc_result) = 3

====
